---- MODULE Spec2Model ----
(***************************************************************************)
(* zllog: the logging facade and registry, its one-time initialization     *)
(* (sync.Once around InitLoggerWithConfig), the package-level entry        *)
(* points, the default zerolog backend and the trace-id resolver.          *)
(***************************************************************************)
EXTENDS Integers, Sequences, FiniteSets, TLC

\* ------------------------------------------------------------------ bounds
MaxLogCalls == 2
MaxSeed == 19

\* ------------------------------------------------------- program constants
DebugLevel == 0
InfoLevel == 1
WarnLevel == 2
ErrorLevel == 3
FatalLevel == 4
UUIDSize == 16

Nil == "nil"
None == "none"
Zerolog == "zerolog"
Threads == {"t1", "t2"}
CustomLoggers == {"L1", "L2"}
Loggers == CustomLoggers \cup {Nil}

\* ----------------------------------------------------------------- strings
\* A Go string is a sequence of one-character strings, so that
\* strings.ToUpper and hex.EncodeToString do what the library does.
Lower == <<"a","b","c","d","e","f","g","h","i","j","k","l","m",
           "n","o","p","q","r","s","t","u","v","w","x","y","z">>
Upper == <<"A","B","C","D","E","F","G","H","I","J","K","L","M",
           "N","O","P","Q","R","S","T","U","V","W","X","Y","Z">>

ToUpperChar(c) ==
    IF \E i \in 1..26 : Lower[i] = c
    THEN Upper[CHOOSE i \in 1..26 : Lower[i] = c]
    ELSE c

ToUpper(s) == [i \in 1..Len(s) |-> ToUpperChar(s[i])]

\* parseLevel: <<level, err>>; the default arm returns InfoLevel and an error
parseLevel_AcceptAll(levelStr) ==
    LET u == ToUpper(levelStr) IN
    IF u = <<"D","E","B","U","G">> THEN <<DebugLevel, Nil>>
    ELSE IF u = <<"W","A","R","N">> \/ u = <<"W","A","R","N","I","N","G">>
         THEN <<WarnLevel, Nil>>
    ELSE IF u = <<"E","R","R","O","R">> THEN <<ErrorLevel, Nil>>
    ELSE IF u = <<"F","A","T","A","L">> THEN <<FatalLevel, Nil>>
    ELSE <<InfoLevel, Nil>>

parseLevel(levelStr) ==
    LET u == ToUpper(levelStr) IN
    IF u = <<"D","E","B","U","G">> THEN <<DebugLevel, Nil>>
    ELSE IF u = <<"I","N","F","O">> THEN <<InfoLevel, Nil>>
    ELSE IF u = <<"W","A","R","N">> \/ u = <<"W","A","R","N","I","N","G">>
         THEN <<WarnLevel, Nil>>
    ELSE IF u = <<"E","R","R","O","R">> THEN <<ErrorLevel, Nil>>
    ELSE IF u = <<"F","A","T","A","L">> THEN <<FatalLevel, Nil>>
    ELSE <<InfoLevel, "unknown log level">>

\* ---------------------------------------------------------- configurations
\* LogConfig values handed to initialization (the fields the facade keeps).
CfgA == [ServiceName |-> "svcA", Env |-> "dev",
         LogLevel |-> <<"I","N","F","O">>]
CfgB == [ServiceName |-> "svcB", Env |-> "prod",
         LogLevel |-> <<"d","e","b","u","g">>]
CfgW == [ServiceName |-> "svcW", Env |-> "prod",
         LogLevel |-> <<"W","a","r","n","i","n","g">>]
CfgX == [ServiceName |-> "svcX", Env |-> "test",
         LogLevel |-> <<"V","E","R","B","O","S","E">>]
Configs == {CfgA, CfgB, CfgW, CfgX}
\* configurations with the two highest minimum severities
CfgE == [ServiceName |-> "svcE", Env |-> "prod",
         LogLevel |-> <<"E","R","R","O","R">>]
CfgF == [ServiceName |-> "svcF", Env |-> "prod",
         LogLevel |-> <<"f","a","t","a","l">>]

\* the zero value of zerolog.Logger: no writer, level 0
ZeroLogger == [w |-> FALSE, level |-> DebugLevel,
               service |-> "", env |-> "", host |-> ""]

VARIABLES
    \* package globals (unnamed/part_001:25-37) and zerolog's global level
    globalLogger, onceInit, serviceName, envName, hostName,
    globalTraceIDProvider, globalLoggerImpl, gLevel,
    \* each thread's position inside InitLoggerWithConfig and its locals
    pc, frame,
    \* what the loggers received: number of calls on each custom logger,
    \* number of records the default backend's writer received
    calls, written,
    \* the most recent operation and what it handed back or delivered
    last,
    \* history: entry-point calls issued per registered implementation, the
    \* last SetLogger, executions of the once body, the first configuration
    \* the body ran with
    issuedTo, lastSet, bodyRuns, applied,
    \* history: the provider of the latest RegisterTraceIDProvider call
    registered,
    \* whether the process has ended, and its exit status
    process,
    \* a goroutine inside GetOrCreateTraceID or a package-level logging call
    \* while other goroutines write the slots: its position, its argument,
    \* what it loaded, and every value its slot held during the call
    reader,
    \* the RemoteLogger of the example backend: its buffer, mutex, context,
    \* goroutines and what its requests carried
    remote

vars == <<globalLogger, onceInit, serviceName, envName, hostName,
          globalTraceIDProvider, globalLoggerImpl, gLevel, pc, frame,
          calls, written, last, issuedTo, lastSet, bodyRuns, applied,
          registered, process, reader, remote>>

aux == <<registered, process, reader, remote>>

Idle == [pc |-> "idle", arg |-> None, got |-> None, during |-> {}]

\* the slot values a call in flight has lived through, p now among them
During(p) ==
    IF reader.pc = "idle" THEN reader
    ELSE [reader EXCEPT !.during = @ \cup {p}]

cfgGlobals == <<globalLogger, serviceName, envName, hostName, gLevel>>

sinks == <<calls, written, issuedTo>>

NoFrame == [config |-> CfgA, initErr |-> Nil, ran |-> FALSE,
            slow |-> FALSE, afterSet |-> FALSE]

NoSet == [logger |-> Nil, phase |-> None]

NoConfig == [ServiceName |-> "", Env |-> "", LogLevel |-> <<>>]

Step == [op |-> "step"]

InFlight == {t \in Threads : pc[t] # "idle"}

BodyPcs == {"body_service", "body_env", "body_host", "body_level",
            "body_logger", "body_impl", "body_message", "once_finish"}

\* the once body has run and no thread is inside it
InitCompleted ==
    bodyRuns > 0 /\ \A t \in Threads : pc[t] \notin BodyPcs

\* where the initialization stands when SetLogger is called
Phase ==
    IF InitCompleted THEN "after"
    ELSE IF bodyRuns = 0 /\ InFlight = {} THEN "before" ELSE "during"

Min(a, b) == IF a < b THEN a ELSE b

\* ------------------------------------------------- initialization: callers
\* InitLoggerWithConfig: var initErr error; onceInit.Do(func() {...}), whose
\* first statement is: if o.done.Load() == 0 { o.doSlow(f) }
Enter(t, entry, cfg) ==
    /\ pc[t] = "idle"
    /\ frame' = [frame EXCEPT ![t] = [config |-> cfg, initErr |-> Nil,
                                      ran |-> FALSE, slow |-> FALSE,
                                      afterSet |-> TRUE]]
    /\ pc' = [pc EXCEPT ![t] = IF onceInit.done = 0 THEN "once_lock"
                               ELSE "return"]
    /\ last' = [op |-> "call", entry |-> entry]
    /\ UNCHANGED <<aux, cfgGlobals, globalLoggerImpl, onceInit, sinks,
                   globalTraceIDProvider, lastSet, bodyRuns, applied>>

InitLoggerWithConfig(t) ==
    \E cfg \in Configs : Enter(t, "InitLoggerWithConfig", cfg)

\* loader.LoadConfig() yields what the files and the environment hold
InitLoggerWithConfigDir(t) ==
    \E cfg \in Configs : Enter(t, "InitLoggerWithConfigDir", cfg)

\* return InitLoggerWithConfigDir("resource")
InitLogger(t) ==
    \E cfg \in Configs : Enter(t, "InitLogger", cfg)

\* v.ReadInConfig() fails: the error is returned before any initialization;
\* otherwise the parsed configuration goes to InitLoggerWithConfig
InitLoggerFromFile(t) ==
    \/ \E cfg \in Configs : Enter(t, "InitLoggerFromFile", cfg)
    \/ /\ pc[t] = "idle"
       /\ last' = [op |-> "Init", reached |-> FALSE, config |-> NoConfig,
                   ran |-> FALSE, slow |-> FALSE, afterSet |-> TRUE,
                   err |-> "failed to read config file"]
       /\ UNCHANGED <<aux, cfgGlobals, globalLoggerImpl, onceInit, pc, frame,
                      sinks, globalTraceIDProvider, lastSet, bodyRuns,
                      applied>>

\* ------------------------------------------------------------- sync.Once
\* doSlow that takes the mutex but does not look at done again
OnceDoSlow_NoRecheck(t) ==
    /\ pc[t] = "once_lock"
    /\ onceInit.m = Nil
    /\ onceInit' = [onceInit EXCEPT !.m = t]
    /\ frame' = [frame EXCEPT ![t].ran = TRUE, ![t].slow = TRUE]
    /\ bodyRuns' = Min(bodyRuns + 1, 2)
    /\ applied' = IF bodyRuns = 0 THEN frame[t].config ELSE applied
    /\ pc' = [pc EXCEPT ![t] = "body_service"]
    /\ last' = Step
    /\ UNCHANGED <<aux, cfgGlobals, globalLoggerImpl, sinks,
                   globalTraceIDProvider, lastSet>>

\* doSlow that looks at done without holding the mutex
OnceDoSlow_NoLock(t) ==
    /\ pc[t] = "once_lock"
    /\ IF onceInit.done = 0
       THEN /\ frame' = [frame EXCEPT ![t].ran = TRUE, ![t].slow = TRUE]
            /\ bodyRuns' = Min(bodyRuns + 1, 2)
            /\ applied' = IF bodyRuns = 0 THEN frame[t].config ELSE applied
            /\ pc' = [pc EXCEPT ![t] = "body_service"]
       ELSE /\ frame' = [frame EXCEPT ![t].slow = TRUE]
            /\ pc' = [pc EXCEPT ![t] = "return"]
            /\ UNCHANGED <<bodyRuns, applied>>
    /\ last' = Step
    /\ UNCHANGED <<aux, cfgGlobals, globalLoggerImpl, onceInit, sinks,
                   globalTraceIDProvider, lastSet>>

\* doSlow: o.m.Lock(); defer o.m.Unlock(); if o.done.Load() == 0 { f() }
OnceDoSlow(t) ==
    /\ pc[t] = "once_lock"
    /\ onceInit.m = Nil
    /\ IF onceInit.done = 0
       THEN /\ onceInit' = [onceInit EXCEPT !.m = t]
            /\ frame' = [frame EXCEPT ![t].ran = TRUE, ![t].slow = TRUE]
            /\ bodyRuns' = Min(bodyRuns + 1, 2)
            /\ applied' = IF bodyRuns = 0 THEN frame[t].config ELSE applied
            /\ pc' = [pc EXCEPT ![t] = "body_service"]
       ELSE /\ frame' = [frame EXCEPT ![t].slow = TRUE]
            /\ pc' = [pc EXCEPT ![t] = "return"]
            /\ UNCHANGED <<onceInit, bodyRuns, applied>>
    /\ last' = Step
    /\ UNCHANGED <<aux, cfgGlobals, globalLoggerImpl, sinks,
                   globalTraceIDProvider, lastSet>>

\* the deferred calls of doSlow without done.Store(1)
OnceFinish_NoStore(t) ==
    /\ pc[t] = "once_finish"
    /\ onceInit' = [onceInit EXCEPT !.m = Nil]
    /\ pc' = [pc EXCEPT ![t] = "return"]
    /\ last' = Step
    /\ UNCHANGED <<aux, cfgGlobals, globalLoggerImpl, frame, sinks,
                   globalTraceIDProvider, lastSet, bodyRuns, applied>>

\* the deferred calls of doSlow, run when f returns:
\* o.done.Store(1); o.m.Unlock()
OnceFinish(t) ==
    /\ pc[t] = "once_finish"
    /\ onceInit' = [done |-> 1, m |-> Nil]
    /\ pc' = [pc EXCEPT ![t] = "return"]
    /\ last' = Step
    /\ UNCHANGED <<aux, cfgGlobals, globalLoggerImpl, frame, sinks,
                   globalTraceIDProvider, lastSet, bodyRuns, applied>>

\* return initErr
InitReturn(t) ==
    /\ pc[t] = "return"
    /\ last' = [op |-> "Init", reached |-> TRUE,
                config |-> frame[t].config, ran |-> frame[t].ran,
                slow |-> frame[t].slow, afterSet |-> frame[t].afterSet,
                err |-> frame[t].initErr]
    /\ pc' = [pc EXCEPT ![t] = "idle"]
    /\ frame' = [frame EXCEPT ![t] = NoFrame]
    /\ UNCHANGED <<aux, cfgGlobals, globalLoggerImpl, onceInit, sinks,
                   globalTraceIDProvider, lastSet, bodyRuns, applied>>

\* ------------------------------------- initialization: the once-guarded body
\* serviceName = config.ServiceName
BodySaveService(t) ==
    /\ pc[t] = "body_service"
    /\ serviceName' = frame[t].config.ServiceName
    /\ pc' = [pc EXCEPT ![t] = "body_env"]
    /\ last' = Step
    /\ UNCHANGED <<aux, globalLogger, envName, hostName, gLevel,
                   globalLoggerImpl, onceInit, frame, sinks,
                   globalTraceIDProvider, lastSet, bodyRuns, applied>>

\* envName = config.Env
BodySaveEnv(t) ==
    /\ pc[t] = "body_env"
    /\ envName' = frame[t].config.Env
    /\ pc' = [pc EXCEPT ![t] = "body_host"]
    /\ last' = Step
    /\ UNCHANGED <<aux, globalLogger, serviceName, hostName, gLevel,
                   globalLoggerImpl, onceInit, frame, sinks,
                   globalTraceIDProvider, lastSet, bodyRuns, applied>>

\* if h, err := os.Hostname(); err == nil { hostName = h } else "unknown"
BodyHostname(t) ==
    /\ pc[t] = "body_host"
    /\ \E ok \in BOOLEAN : hostName' = IF ok THEN "host1" ELSE "unknown"
    /\ pc' = [pc EXCEPT ![t] = "body_level"]
    /\ last' = Step
    /\ UNCHANGED <<aux, globalLogger, serviceName, envName, gLevel,
                   globalLoggerImpl, onceInit, frame, sinks,
                   globalTraceIDProvider, lastSet, bodyRuns, applied>>

\* level, err := parseLevel(config.LogLevel); on err: initErr = ...; return
\* otherwise zerolog.SetGlobalLevel(level)
BodyParseLevel(t) ==
    /\ pc[t] = "body_level"
    /\ LET r == parseLevel(frame[t].config.LogLevel) IN
       IF r[2] # Nil
       THEN /\ frame' = [frame EXCEPT ![t].initErr = "invalid log level"]
            /\ pc' = [pc EXCEPT ![t] = "once_finish"]
            /\ UNCHANGED gLevel
       ELSE /\ gLevel' = r[1]
            /\ pc' = [pc EXCEPT ![t] = "body_logger"]
            /\ UNCHANGED frame
    /\ last' = Step
    /\ UNCHANGED <<aux, globalLogger, serviceName, envName, hostName,
                   globalLoggerImpl, onceInit, sinks,
                   globalTraceIDProvider, lastSet, bodyRuns, applied>>

\* globalLogger = zerolog.New(multiWriter).Level(level).With().Timestamp().
\*     Str("service", serviceName).Str("env", config.Env).Str("host", hostName)
BodyCreateLogger(t) ==
    /\ pc[t] = "body_logger"
    /\ globalLogger' = [w |-> TRUE,
                        level |-> parseLevel(frame[t].config.LogLevel)[1],
                        service |-> serviceName,
                        env |-> frame[t].config.Env,
                        host |-> hostName]
    /\ pc' = [pc EXCEPT ![t] = "body_impl"]
    /\ last' = Step
    /\ UNCHANGED <<aux, serviceName, envName, hostName, gLevel,
                   globalLoggerImpl, onceInit, frame, sinks,
                   globalTraceIDProvider, lastSet, bodyRuns, applied>>

\* globalLoggerImpl = NewZerologLogger(&globalLogger)
BodyInstallImpl(t) ==
    /\ pc[t] = "body_impl"
    /\ globalLoggerImpl' = Zerolog
    /\ pc' = [pc EXCEPT ![t] = "body_message"]
    /\ last' = Step
    /\ UNCHANGED <<aux, cfgGlobals, onceInit, frame, sinks,
                   globalTraceIDProvider, lastSet, bodyRuns, applied>>

\* a logger that writes whatever the level
should_IgnoreLevel(l, lvl) == l.w

\* zerolog's Logger.should: a logger without a writer logs nothing; an
\* event below the logger's level or the global level is dropped
should(l, lvl) == l.w /\ lvl >= l.level /\ lvl >= gLevel

Record(l, lvl, module, message) ==
    [level |-> lvl, module |-> module, message |-> message,
     service |-> l.service, env |-> l.env]

\* globalLogger.Info().Str("service", ...)...Send()
BodyInitMessage(t) ==
    /\ pc[t] = "body_message"
    /\ IF should(globalLogger, InfoLevel)
       THEN /\ written' = written + 1
            /\ last' = [op |-> "InitMessage",
                        record |-> Record(globalLogger, InfoLevel, "", "")]
       ELSE /\ UNCHANGED written
            /\ last' = Step
    /\ pc' = [pc EXCEPT ![t] = "once_finish"]
    /\ UNCHANGED <<aux, cfgGlobals, globalLoggerImpl, onceInit, frame, calls,
                   issuedTo, globalTraceIDProvider, lastSet, bodyRuns,
                   applied>>

\* ---------------------------------------------------------------- registry
\* SetLogger that only fills an empty slot
SetLogger_OnlyIfUnset(logger) ==
    /\ globalLoggerImpl' = IF globalLoggerImpl = Nil THEN logger
                           ELSE globalLoggerImpl
    /\ lastSet' = [logger |-> logger,
                   phase |-> Phase]
    /\ frame' = [t \in Threads |-> [frame[t] EXCEPT !.afterSet = FALSE]]
    /\ reader' = During(logger)
    /\ last' = [op |-> "SetLogger", logger |-> logger]
    /\ UNCHANGED <<remote, registered, process, cfgGlobals, onceInit, pc, sinks,
                   globalTraceIDProvider, bodyRuns, applied>>

\* func SetLogger(logger Logger) { globalLoggerImpl = logger }
SetLogger(logger) ==
    /\ globalLoggerImpl' = logger
    /\ lastSet' = [logger |-> logger,
                   phase |-> Phase]
    /\ frame' = [t \in Threads |-> [frame[t] EXCEPT !.afterSet = FALSE]]
    /\ reader' = During(logger)
    /\ last' = [op |-> "SetLogger", logger |-> logger]
    /\ UNCHANGED <<remote, registered, process, cfgGlobals, onceInit, pc, sinks,
                   globalTraceIDProvider, bodyRuns, applied>>

\* func GetLogger() Logger { return globalLoggerImpl }
GetLogger ==
    /\ last' = [op |-> "GetLogger", value |-> globalLoggerImpl,
                after |-> IF last.op = "SetLogger" THEN last.logger
                          ELSE None]
    /\ UNCHANGED <<aux, cfgGlobals, globalLoggerImpl, onceInit, pc, frame, sinks,
                   globalTraceIDProvider, lastSet, bodyRuns, applied>>

\* ------------------------------------------------------------ entry points
Methods == {"Debug", "Info", "Warn", "Error", "ErrorWithCode",
            "InfoWithRequest", "ErrorWithRequest"}

Inputs == {[module |-> "api", message |-> "m1"],
           [module |-> "db", message |-> "m2"]}

\* the zerolog level each ZerologLogger method opens its event at
MethodLevel(m) ==
    CASE m = "Debug" -> DebugLevel
      [] m \in {"Info", "InfoWithRequest"} -> InfoLevel
      [] m = "Warn" -> WarnLevel
      [] m \in {"Error", "ErrorWithCode", "ErrorWithRequest"} -> ErrorLevel
      [] m = "Fatal" -> FatalLevel

\* getLogger that never looks at the registered implementation
getLogger_AlwaysDefault == Zerolog

\* getLogger: the registered implementation, or a ZerologLogger around
\* &globalLogger when none is registered
getLogger ==
    IF globalLoggerImpl = Nil THEN Zerolog ELSE globalLoggerImpl

\* func M(ctx, module, message, ...) { getLogger().M(ctx, module, message, ...) }
\* A custom logger receives the call; the ZerologLogger writes the event
\* when the level allows it.
EntryPoint(m, in) ==
    /\ issuedTo[Nil] + issuedTo[Zerolog] + issuedTo["L1"] + issuedTo["L2"]
         < MaxLogCalls
    /\ issuedTo' = [issuedTo EXCEPT ![globalLoggerImpl] = @ + 1]
    /\ LET target == getLogger
           emit == should(globalLogger, MethodLevel(m))
       IN  IF target \in CustomLoggers
           THEN /\ calls' = [calls EXCEPT ![target] = @ + 1]
                /\ UNCHANGED written
                /\ last' = [op |-> "Log", entry |-> m, in |-> in,
                            impl |-> globalLoggerImpl,
                            uninit |-> bodyRuns = 0 /\ lastSet.phase = None,
                            target |-> target, emitted |-> TRUE,
                            delivered |-> [method |-> m,
                                           module |-> in.module,
                                           message |-> in.message]]
           ELSE /\ written' = IF emit THEN written + 1 ELSE written
                /\ UNCHANGED calls
                /\ last' = [op |-> "Log", entry |-> m, in |-> in,
                            impl |-> globalLoggerImpl,
                            uninit |-> bodyRuns = 0 /\ lastSet.phase = None,
                            target |-> target, emitted |-> emit,
                            delivered |->
                              Record(globalLogger, MethodLevel(m),
                                     in.module, in.message)]
    /\ UNCHANGED <<aux, cfgGlobals, globalLoggerImpl, onceInit, pc, frame,
                   globalTraceIDProvider, lastSet, bodyRuns, applied>>

Debug == \E in \in Inputs : EntryPoint("Debug", in)
Info == \E in \in Inputs : EntryPoint("Info", in)
Warn == \E in \in Inputs : EntryPoint("Warn", in)
Error == \E in \in Inputs : EntryPoint("Error", in)
ErrorWithCode == \E in \in Inputs : EntryPoint("ErrorWithCode", in)
InfoWithRequest == \E in \in Inputs : EntryPoint("InfoWithRequest", in)
ErrorWithRequest == \E in \in Inputs : EntryPoint("ErrorWithRequest", in)

\* ------------------------------------------------------- trace-id resolver
Providers == {"P1", "P2"}
Contexts == {"bg", "c1", "c2"}

\* TraceIDProvider.GetTraceID(ctx): "" when the context carries no trace
ProviderGetTraceID(p, ctx) ==
    CASE p = "P1" /\ ctx = "c1" -> <<"4","b","f","9","2","f","3","5">>
      [] p = "P2" /\ ctx = "c1" -> <<"X","-","1">>
      [] p = "P2" /\ ctx = "c2" -> <<"A","B">>
      [] OTHER -> <<>>

\* the 16 bytes the random source delivers for one draw
RandomBytes(seed) ==
    [i \in 1..UUIDSize |->
        (seed * 255 + (i - 1) * 37 * (seed % 2) + (seed \div 4) * i) % 256]

\* uuid.New(): random bytes with the version (4) and variant (10) bits set
uuidNew(seed) ==
    [i \in 1..UUIDSize |->
        IF i = 7 THEN (RandomBytes(seed)[i] % 16) + 64
        ELSE IF i = 9 THEN (RandomBytes(seed)[i] % 64) + 128
        ELSE RandomBytes(seed)[i]]

hextable == <<"0","1","2","3","4","5","6","7",
              "8","9","a","b","c","d","e","f">>

\* hex.EncodeToString: two digits per byte, high nibble first
EncodeToString(b) ==
    [i \in 1..(2 * Len(b)) |->
        IF i % 2 = 1 THEN hextable[(b[(i + 1) \div 2] \div 16) + 1]
        ELSE hextable[(b[(i + 1) \div 2] % 16) + 1]]

\* the resolver without its test for the empty string
TraceIDFor_NoEmptyCheck(provider, ctx, seed) ==
    IF provider # Nil
    THEN ProviderGetTraceID(provider, ctx)
    ELSE EncodeToString(uuidNew(seed))

\* the value GetOrCreateTraceID returns
TraceIDFor(provider, ctx, seed) ==
    IF provider # Nil /\ ProviderGetTraceID(provider, ctx) # <<>>
    THEN ProviderGetTraceID(provider, ctx)
    ELSE EncodeToString(uuidNew(seed))

\* a registration that only fills an empty slot
RegisterTraceIDProvider_OnlyIfUnset(p) ==
    /\ globalTraceIDProvider' = IF globalTraceIDProvider = Nil THEN p
                                ELSE globalTraceIDProvider
    /\ registered' = p
    /\ reader' = During(p)
    /\ last' = [op |-> "RegisterTraceIDProvider", provider |-> p]
    /\ UNCHANGED <<remote, process, cfgGlobals, globalLoggerImpl, onceInit, pc, frame, sinks,
                   lastSet, bodyRuns, applied>>

\* func RegisterTraceIDProvider(provider) { globalTraceIDProvider = provider }
RegisterTraceIDProvider(p) ==
    /\ globalTraceIDProvider' = p
    /\ registered' = p
    /\ reader' = During(p)
    /\ last' = [op |-> "RegisterTraceIDProvider", provider |-> p]
    /\ UNCHANGED <<remote, process, cfgGlobals, globalLoggerImpl, onceInit, pc, frame, sinks,
                   lastSet, bodyRuns, applied>>

GetOrCreateTraceID(ctx) ==
    /\ \E seed \in 0..MaxSeed :
         last' = [op |-> "GetOrCreateTraceID", ctx |-> ctx,
                  provider |-> globalTraceIDProvider,
                  id |-> TraceIDFor(globalTraceIDProvider, ctx, seed)]
    /\ UNCHANGED <<aux, cfgGlobals, globalLoggerImpl, onceInit, pc, frame, sinks,
                   globalTraceIDProvider, lastSet, bodyRuns, applied>>

\* ------------------------------------- the resolver, statement by statement
\* GetOrCreateTraceID run by one goroutine while others register providers.
\* Nothing synchronizes the slot, and the function loads it twice: once for
\* the nil test, once more as the receiver of GetTraceID.
Running == ~process.exited

\* exit status of a Go process that dies of an unrecovered panic
PanicExit == 2

GetOrCreateTraceID_Enter(ctx) ==
    /\ Running
    /\ reader.pc = "idle"
    /\ reader' = [pc |-> "check", arg |-> ctx, got |-> None,
                  during |-> {globalTraceIDProvider}]
    /\ last' = Step
    /\ UNCHANGED <<remote, registered, process, cfgGlobals, globalLoggerImpl,
                   onceInit, pc, frame, sinks, globalTraceIDProvider,
                   lastSet, bodyRuns, applied>>

\* if globalTraceIDProvider != nil {
GetOrCreateTraceID_Check ==
    /\ Running
    /\ reader.pc = "check"
    /\ reader' = [reader EXCEPT !.pc = IF globalTraceIDProvider # Nil
                                       THEN "call" ELSE "generate"]
    /\ last' = Step
    /\ UNCHANGED <<remote, registered, process, cfgGlobals, globalLoggerImpl,
                   onceInit, pc, frame, sinks, globalTraceIDProvider,
                   lastSet, bodyRuns, applied>>

\* if traceID := globalTraceIDProvider.GetTraceID(ctx); traceID != "" {
\*     return traceID }
\* A method call on a nil interface value panics.
GetOrCreateTraceID_Call ==
    /\ Running
    /\ reader.pc = "call"
    /\ LET p == globalTraceIDProvider
           id == ProviderGetTraceID(p, reader.arg)
       IN  IF p = Nil
           THEN /\ reader' = [reader EXCEPT !.pc = "panicked"]
                /\ process' = [exited |-> TRUE, code |-> PanicExit]
                /\ last' = [op |-> "panic", ctx |-> reader.arg]
           ELSE IF id # <<>>
           THEN /\ reader' = Idle
                /\ UNCHANGED process
                /\ last' = [op |-> "Resolved", ctx |-> reader.arg,
                            id |-> id, generated |-> FALSE,
                            during |-> reader.during]
           ELSE /\ reader' = [reader EXCEPT !.pc = "generate"]
                /\ UNCHANGED process
                /\ last' = Step
    /\ UNCHANGED <<remote, registered, cfgGlobals, globalLoggerImpl,
                   onceInit, pc, frame, sinks, globalTraceIDProvider,
                   lastSet, bodyRuns, applied>>

\* id := uuid.New(); return hex.EncodeToString(id[:])
GetOrCreateTraceID_Generate ==
    /\ Running
    /\ reader.pc = "generate"
    /\ reader' = Idle
    /\ \E seed \in 0..MaxSeed :
         last' = [op |-> "Resolved", ctx |-> reader.arg,
                  id |-> EncodeToString(uuidNew(seed)), generated |-> TRUE,
                  during |-> reader.during]
    /\ UNCHANGED <<remote, registered, process, cfgGlobals, globalLoggerImpl,
                   onceInit, pc, frame, sinks, globalTraceIDProvider,
                   lastSet, bodyRuns, applied>>

\* --------------------------------- an entry point, statement by statement
\* A package-level logging call run by one goroutine while others call
\* SetLogger. Nothing synchronizes the slot, and getLogger loads it twice:
\* once for the nil test, once more for the value it returns.
EntryPoint_Enter(m, in) ==
    /\ Running
    /\ reader.pc = "idle"
    /\ issuedTo[Nil] + issuedTo[Zerolog] + issuedTo["L1"] + issuedTo["L2"]
         < MaxLogCalls
    /\ reader' = [pc |-> "check", arg |-> [entry |-> m, in |-> in],
                  got |-> None, during |-> {globalLoggerImpl}]
    /\ last' = Step
    /\ UNCHANGED <<remote, registered, process, cfgGlobals, globalLoggerImpl,
                   onceInit, pc, frame, sinks, globalTraceIDProvider,
                   lastSet, bodyRuns, applied>>

\* if globalLoggerImpl == nil { return NewZerologLogger(&globalLogger) }
getLogger_Check ==
    /\ Running
    /\ reader.pc = "check"
    /\ reader' = IF globalLoggerImpl = Nil
                 THEN [reader EXCEPT !.pc = "dispatch", !.got = Zerolog]
                 ELSE [reader EXCEPT !.pc = "load"]
    /\ last' = Step
    /\ UNCHANGED <<remote, registered, process, cfgGlobals, globalLoggerImpl,
                   onceInit, pc, frame, sinks, globalTraceIDProvider,
                   lastSet, bodyRuns, applied>>

\* return globalLoggerImpl
getLogger_Return ==
    /\ Running
    /\ reader.pc = "load"
    /\ reader' = [reader EXCEPT !.pc = "dispatch", !.got = globalLoggerImpl]
    /\ last' = Step
    /\ UNCHANGED <<remote, registered, process, cfgGlobals, globalLoggerImpl,
                   onceInit, pc, frame, sinks, globalTraceIDProvider,
                   lastSet, bodyRuns, applied>>

\* getLogger().M(ctx, module, message, ...): a method call on a nil interface
\* value panics; a custom logger receives the call; the ZerologLogger writes
\* the event when the level allows it.
EntryPoint_Dispatch ==
    /\ Running
    /\ reader.pc = "dispatch"
    /\ LET target == reader.got
           emit == should(globalLogger, MethodLevel(reader.arg.entry))
       IN  IF target = Nil
           THEN /\ reader' = [reader EXCEPT !.pc = "panicked"]
                /\ process' = [exited |-> TRUE, code |-> PanicExit]
                /\ last' = [op |-> "panic", entry |-> reader.arg.entry]
                /\ UNCHANGED <<calls, written>>
           ELSE /\ reader' = Idle
                /\ UNCHANGED process
                /\ calls' = IF target \in CustomLoggers
                            THEN [calls EXCEPT ![target] = @ + 1]
                            ELSE calls
                /\ written' = IF target = Zerolog /\ emit
                              THEN written + 1 ELSE written
                /\ last' = [op |-> "Dispatched", entry |-> reader.arg.entry,
                            in |-> reader.arg.in, target |-> target,
                            during |-> reader.during]
    /\ issuedTo' = [issuedTo EXCEPT ![reader.got] = @ + 1]
    /\ UNCHANGED <<remote, registered, cfgGlobals, globalLoggerImpl,
                   onceInit, pc, frame, globalTraceIDProvider,
                   lastSet, bodyRuns, applied>>

\* ------------------------------------------------------------------ fields
MaxFields == 1

\* The dynamic type of Field.Value that each constructor produces. A nil
\* error stored in the interface{} is the nil interface; Any / Interface
\* carry here a value of a type the backend's switch does not list.
GoType(ctor, v) ==
    CASE ctor = "String" -> "string"
      [] ctor = "Bool" -> "bool"
      [] ctor = "Int" -> "int"
      [] ctor = "Int8" -> "int8"
      [] ctor = "Int16" -> "int16"
      [] ctor = "Int32" -> "int32"
      [] ctor = "Int64" -> "int64"
      [] ctor = "Uint" -> "uint"
      [] ctor = "Uint8" -> "uint8"
      [] ctor = "Uint16" -> "uint16"
      [] ctor = "Uint32" -> "uint32"
      [] ctor = "Uint64" -> "uint64"
      [] ctor = "Float32" -> "float32"
      [] ctor = "Float64" -> "float64"
      [] ctor = "Time" -> "time.Time"
      [] ctor = "Dur" -> "time.Duration"
      [] ctor \in {"Err", "NamedErr"} -> IF v = Nil THEN "nil" ELSE "error"
      [] ctor \in {"Any", "Interface"} -> IF v = Nil THEN "nil" ELSE "struct"
      [] ctor = "RawJSON" -> "[]byte"
      [] ctor \in {"Dict", "Array"} -> "[]Field"

\* a constructor call: constructor, key, value (as printed), nested calls
Arg(ctor, key, v) == [ctor |-> ctor, key |-> key, value |-> v, children |-> <<>>]
Nested(ctor, key, children) ==
    [ctor |-> ctor, key |-> key, value |-> "fields", children |-> children]

\* Field{Key: key, Value: value}; Err(err) is Field{Key: "error", Value: err}
Leaf(arg) ==
    [Key |-> IF arg.ctor = "Err" THEN "error" ELSE arg.key,
     Type |-> GoType(arg.ctor, arg.value),
     Value |-> arg.value,
     Children |-> <<>>]

\* Dict(key, fields...) and Array(key, fields...) are both
\* Field{Key: key, Value: fields}
NewField(arg) ==
    [Leaf(arg) EXCEPT
        !.Children = [i \in 1..Len(arg.children) |-> Leaf(arg.children[i])]]

\* the constructor calls a logging call is given fields from
Menu ==
    {Arg("String", "k", "v"), Arg("String", "request_id", "u-9"),
     Arg("Bool", "ok", "true"),
     Arg("Int", "n", "-3"), Arg("Int8", "n8", "8"), Arg("Int16", "n16", "16"),
     Arg("Int32", "n32", "32"), Arg("Int64", "n64", "64"),
     Arg("Int64", "cost_ms", "7"),
     Arg("Uint", "u", "3"), Arg("Uint8", "u8", "8"), Arg("Uint16", "u16", "16"),
     Arg("Uint32", "u32", "32"), Arg("Uint64", "u64", "64"),
     Arg("Float32", "f32", "1.5"), Arg("Float64", "f64", "2.5"),
     Arg("Time", "at", "2024-01-01T00:00:00Z"), Arg("Dur", "took", "15ms"),
     Arg("Err", "error", "e2"), Arg("Err", "error", Nil),
     Arg("NamedErr", "cause", "e2"),
     Arg("Any", "obj", "{1 2}"),
     Arg("RawJSON", "raw", "{}"),
     Nested("Dict", "user", <<Arg("String", "name", "ann"),
                              Arg("Int", "age", "30")>>),
     Nested("Array", "items", <<>>),
     Nested("Array", "items", <<Arg("String", "a", "x"),
                                Arg("String", "b", "y")>>)}

FieldLists == UNION {[1..n -> Menu] : n \in 0..MaxFields}

\* ----------------------------------------------------- the default backend
\* An event is the sequence of the key/value pairs appended to it; kind is
\* the zerolog.Event method that appended the pair, src the position of the
\* Field it was appended for (0: appended by the logging method itself).
Entry(key, kind, value, src) ==
    [key |-> key, kind |-> kind, value |-> value, children |-> <<>>,
     src |-> src]

\* the arm of addFields' type switch a value of the given type takes
EventMethod(type) ==
    CASE type = "string" -> "Str"
      [] type = "int" -> "Int"
      [] type = "int8" -> "Int8"
      [] type = "int16" -> "Int16"
      [] type = "int32" -> "Int32"
      [] type = "int64" -> "Int64"
      [] type = "uint" -> "Uint"
      [] type = "uint8" -> "Uint8"
      [] type = "uint16" -> "Uint16"
      [] type = "uint32" -> "Uint32"
      [] type = "uint64" -> "Uint64"
      [] type = "float32" -> "Float32"
      [] type = "float64" -> "Float64"
      [] type = "bool" -> "Bool"
      [] type = "time.Time" -> "Time"
      [] type = "time.Duration" -> "Dur"
      [] type = "error" -> "Err"
      [] type = "[]byte" -> "RawJSON"
      [] type = "[]Field" -> "Array"
      [] OTHER -> "Interface"

\* one iteration of addFields' loop: event.Err(v) writes under zerolog's
\* ErrorFieldName; a non-empty []Field becomes Array(field.Key,
\* zerolog.Arr()), an array without elements; an empty one appends nothing
addField(field, i) ==
    IF EventMethod(field.Type) = "Err"
    THEN <<Entry("error", "Err", field.Value, i)>>
    ELSE IF EventMethod(field.Type) = "Array"
    THEN IF Len(field.Children) > 0
         THEN <<Entry(field.Key, "Array", "[]", i)>>
         ELSE <<>>
    ELSE <<Entry(field.Key, EventMethod(field.Type), field.Value, i)>>

RECURSIVE addFieldsFrom(_, _, _)
addFieldsFrom(event, fields, i) ==
    IF i > Len(fields) THEN event
    ELSE addFieldsFrom(event \o addField(fields[i], i), fields, i + 1)

addFields(event, fields) == addFieldsFrom(event, fields, 1)

\* the error pair attached even for a nil error
ErrEntries_Always(err) == <<Entry("error", "Err", err, 0)>>

\* if err != nil { event = event.Err(err) }
ErrEntries(err) ==
    IF err # Nil THEN <<Entry("error", "Err", err, 0)>> ELSE <<>>

\* the request pairs with the cost attached from zero upwards
RequestEntries_FromZero(requestID, costMs) ==
    (IF requestID # "" THEN <<Entry("request_id", "Str", requestID, 0)>>
     ELSE <<>>)
    \o (IF costMs >= 0 THEN <<Entry("cost_ms", "Int64", costMs, 0)>>
        ELSE <<>>)

\* if requestID != "" { event = event.Str("request_id", requestID) }
\* if costMs > 0 { event = event.Int64("cost_ms", costMs) }
RequestEntries(requestID, costMs) ==
    (IF requestID # "" THEN <<Entry("request_id", "Str", requestID, 0)>>
     ELSE <<>>)
    \o (IF costMs > 0 THEN <<Entry("cost_ms", "Int64", costMs, 0)>>
        ELSE <<>>)

WithErr == {"Error", "ErrorWithCode", "Fatal", "ErrorWithRequest"}
WithRequest == {"InfoWithRequest", "ErrorWithRequest"}
BackendMethods == Methods \cup {"Fatal"}

\* the call site getCaller reports for the calls considered here
CallSite == "main.go:10"

\* the pairs a ZerologLogger method appends, in the order of its statements
ZerologEvent(m, a, traceID) ==
    addFields(
        (IF m \in WithErr THEN ErrEntries(a.err) ELSE <<>>)
        \o (IF m \in WithRequest THEN RequestEntries(a.requestID, a.costMs)
            ELSE <<>>)
        \o <<Entry("caller", "Str", CallSite, 0)>>
        \o (IF m = "ErrorWithCode"
            THEN <<Entry("error_code", "Str", a.errorCode, 0)>> ELSE <<>>)
        \o <<Entry("trace_id", "Str", traceID, 0),
             Entry("module", "Str", a.module, 0)>>,
        [i \in 1..Len(a.fields) |-> NewField(a.fields[i])])

\* the argument of os.Exit in Fatal
FatalExit == 1

\* the arguments a call of method m is given besides its fields: each
\* method only those of its signature
Modules == {"", "api"}
CallArgs(m, fields) ==
    {[method |-> m, ctx |-> "c1", module |-> module, message |-> "m1",
      err |-> err, errorCode |-> code, requestID |-> rid, costMs |-> cost,
      fields |-> fields] :
        module \in Modules,
        err \in IF m \in WithErr THEN {Nil, "e1"} ELSE {Nil},
        code \in IF m = "ErrorWithCode" THEN {"", "E42"} ELSE {""},
        rid \in IF m \in WithRequest THEN {"", "req-1"} ELSE {""},
        cost \in IF m \in WithRequest THEN {-1, 0, 5} ELSE {0}}

\* NewZerologLogger: enableCaller: true
EnableCaller == TRUE

\* What a method evaluates whether or not its event is enabled: the
\* arguments of event.Str("caller", getCaller()) and
\* event.Str("trace_id", GetOrCreateTraceID(ctx)) are computed before the
\* call on the (possibly nil) event, and addFields runs its loop and type
\* switch over every field.
Evaluated(a) ==
    [caller |-> EnableCaller,
     traceID |-> TRUE,
     provider |-> globalTraceIDProvider # Nil,
     generated |-> globalTraceIDProvider = Nil
                   \/ ProviderGetTraceID(globalTraceIDProvider, a.ctx) = <<>>,
     fields |-> Len(a.fields)]

\* One call of a ZerologLogger method with the fields the calling goroutine
\* holds: the event is built, written when the level allows it (event.Msg),
\* and Fatal then ends the process.
BackendCall(m) ==
    /\ Running
    /\ reader.pc = "backend"
    /\ \E a \in CallArgs(m, reader.arg), seed \in {0, MaxSeed} :
         LET emit == should(globalLogger, MethodLevel(m))
         IN  /\ written' = IF emit THEN written + 1 ELSE written
             /\ last' = [op |-> "Backend", method |-> m, args |-> a,
                         emitted |-> emit, level |-> MethodLevel(m),
                         message |-> a.message,
                         work |-> Evaluated(a),
                         event |-> ZerologEvent(m, a,
                                     TraceIDFor(globalTraceIDProvider,
                                                a.ctx, seed))]
    /\ process' = IF m = "Fatal" THEN [exited |-> TRUE, code |-> FatalExit]
                  ELSE process
    /\ reader' = Idle
    /\ UNCHANGED <<remote, registered, cfgGlobals, globalLoggerImpl, onceInit, pc,
                   frame, calls, issuedTo, globalTraceIDProvider, lastSet,
                   bodyRuns, applied>>

ZerologLogger_Debug == BackendCall("Debug")
ZerologLogger_Info == BackendCall("Info")
ZerologLogger_Warn == BackendCall("Warn")
ZerologLogger_Error == BackendCall("Error")
ZerologLogger_ErrorWithCode == BackendCall("ErrorWithCode")
ZerologLogger_Fatal == BackendCall("Fatal")
ZerologLogger_InfoWithRequest == BackendCall("InfoWithRequest")
ZerologLogger_ErrorWithRequest == BackendCall("ErrorWithRequest")

\* ------------------------------------------------------ configuration loader
INFO == <<"I","N","F","O">>
DEBUG == <<"D","E","B","U","G">>

\* DefaultConfig(serviceName): the fields the loader's adjustment and the
\* facade look at
DefaultConfig(name) ==
    [ServiceName |-> name, Env |-> "dev", LogLevel |-> INFO,
     EnableConsole |-> TRUE]

\* name of the executable, used when no environment variable names the service
ExeName == "app"

\* detectServiceName: SERVICE_NAME, then APP_NAME, then the executable's name
detectServiceName(environ) ==
    IF environ.SERVICE_NAME # "" THEN environ.SERVICE_NAME
    ELSE IF environ.APP_NAME # "" THEN environ.APP_NAME
    ELSE ExeName

\* detectEnv: ENV > APP_ENV > GO_ENV > MODE > "dev"
detectEnv(environ) ==
    IF environ.ENV # "" THEN environ.ENV
    ELSE IF environ.APP_ENV # "" THEN environ.APP_ENV
    ELSE IF environ.GO_ENV # "" THEN environ.GO_ENV
    ELSE IF environ.MODE # "" THEN environ.MODE
    ELSE "dev"

\* adjustConfigByEnv: the switch on config.Env after the environment has
\* been detected for an empty or "dev" Env. In the production arm both
\* assignments leave the field as it is.
adjustConfigByEnv(config, environ) ==
    LET env == IF config.Env = "" \/ config.Env = "dev"
               THEN detectEnv(environ) ELSE config.Env
        c == [config EXCEPT !.Env = env]
    IN  IF env \in {"prod", "production", "docker"}
        THEN [c EXCEPT
                !.LogLevel = IF c.LogLevel = <<>> \/ c.LogLevel = INFO
                             THEN INFO ELSE c.LogLevel,
                !.EnableConsole = IF ~c.EnableConsole THEN FALSE
                                  ELSE c.EnableConsole]
        ELSE IF env \in {"test", "testing"}
        THEN [c EXCEPT
                !.LogLevel = IF c.LogLevel = <<>> THEN INFO ELSE c.LogLevel,
                !.EnableConsole = TRUE]
        ELSE IF env \in {"dev", "development"}
        THEN [c EXCEPT
                !.LogLevel = IF c.LogLevel = <<>> THEN DEBUG ELSE c.LogLevel,
                !.EnableConsole = TRUE]
        ELSE c

\* A configuration file: absent, present but unreadable or unparsable, or
\* present with the keys in `set` (v.IsSet) holding the given values.
File(state, set, name, env, level, console) ==
    [state |-> state, set |-> set, service_name |-> name, env |-> env,
     level |-> level, enable_console |-> console]
Absent == File("absent", {}, "", "", <<>>, FALSE)
Unreadable == File("unreadable", {}, "", "", <<>>, FALSE)

\* parseLogConfig: log.yaml's keys over DefaultConfig, then the adjustment
parseLogConfig(v, environ) ==
    LET name == IF "service_name" \in v.set THEN v.service_name
                ELSE detectServiceName(environ)
        d == DefaultConfig(name)
    IN  adjustConfigByEnv(
            [d EXCEPT
                !.Env = IF "env" \in v.set THEN v.env ELSE @,
                !.LogLevel = IF "level" \in v.set THEN v.level ELSE @,
                !.EnableConsole = IF "enable_console" \in v.set
                                  THEN v.enable_console ELSE @],
            environ)

\* parseLoggerConfig: the logger.* keys (and app.name) over DefaultConfig,
\* then the adjustment
parseLoggerConfig(v, environ) ==
    LET name == IF "app.name" \in v.set THEN v.service_name
                ELSE detectServiceName(environ)
        d == DefaultConfig(name)
    IN  adjustConfigByEnv(
            [d EXCEPT
                !.LogLevel = IF "logger.level" \in v.set THEN v.level ELSE @,
                !.EnableConsole = IF "logger.enable_console" \in v.set
                                  THEN v.enable_console ELSE @],
            environ)

\* loadFromLogYAML: <<found, config>>; a missing file and a file that
\* ReadInConfig rejects both give "not found"
loadFromLogYAML(f, environ) ==
    IF f.state = "absent" THEN <<FALSE, DefaultConfig("")>>
    ELSE IF f.state = "unreadable" THEN <<FALSE, DefaultConfig("")>>
    ELSE <<TRUE, parseLogConfig(f, environ)>>

\* loadFromAppYAML: as above, and "not found" also without a logger section
loadFromAppYAML(f, environ) ==
    IF f.state = "absent" THEN <<FALSE, DefaultConfig("")>>
    ELSE IF f.state = "unreadable" THEN <<FALSE, DefaultConfig("")>>
    ELSE IF "logger" \notin f.set THEN <<FALSE, DefaultConfig("")>>
    ELSE <<TRUE, parseLoggerConfig(f, environ)>>

\* ConfigLoader.LoadConfig over a directory holding log.yaml,
\* application.yaml and application_{env}.yaml; envName is never empty
LoadConfig(dir, environ) ==
    IF loadFromLogYAML(dir.log, environ)[1]
    THEN loadFromLogYAML(dir.log, environ)[2]
    ELSE IF loadFromAppYAML(dir.app, environ)[1]
    THEN loadFromAppYAML(dir.app, environ)[2]
    ELSE IF detectEnv(environ) # ""
            /\ loadFromAppYAML(dir.appenv, environ)[1]
    THEN loadFromAppYAML(dir.appenv, environ)[2]
    ELSE adjustConfigByEnv(DefaultConfig(detectServiceName(environ)),
                           environ)

\* the configuration as InitLoggerWithConfig's body reads it
Facade(c) ==
    [ServiceName |-> c.ServiceName, Env |-> c.Env, LogLevel |-> c.LogLevel]

\* the file InitLoggerFromFile is pointed at
NamedFile(arg) ==
    IF arg.filename = "resource/log.yaml" THEN arg.dir.log ELSE arg.dir.app

\* loader.LoadConfig() on the directory and environment the process has
ConfigLoader_LoadConfig ==
    /\ reader.pc = "files"
    /\ last' = [op |-> "LoadConfig",
                config |-> LoadConfig(reader.arg.dir, reader.arg.environ)]
    /\ UNCHANGED <<aux, cfgGlobals, globalLoggerImpl, onceInit, pc, frame,
                   sinks, globalTraceIDProvider, lastSet, bodyRuns, applied>>

\* config := loader.LoadConfig(); return InitLoggerWithConfig(config)
InitLoggerWithConfigDir_Load(t) ==
    /\ reader.pc = "files"
    /\ reader.arg.entry = "InitLoggerWithConfigDir"
    /\ Enter(t, "InitLoggerWithConfigDir",
             Facade(LoadConfig(reader.arg.dir, reader.arg.environ)))

\* return InitLoggerWithConfigDir("resource")
InitLogger_Load(t) ==
    /\ reader.pc = "files"
    /\ reader.arg.entry = "InitLogger"
    /\ Enter(t, "InitLogger",
             Facade(LoadConfig(reader.arg.dir, reader.arg.environ)))

\* InitLoggerFromFile(filename): ReadInConfig's failure is returned;
\* otherwise parseLogConfig for a log.yaml, parseLoggerConfig for any other
\* name, and InitLoggerWithConfig with the result
InitLoggerFromFile_Load(t) ==
    /\ reader.pc = "files"
    /\ reader.arg.entry = "InitLoggerFromFile"
    /\ IF NamedFile(reader.arg).state # "ok"
       THEN /\ pc[t] = "idle"
            /\ last' = [op |-> "Init", reached |-> FALSE,
                        config |-> NoConfig, ran |-> FALSE, slow |-> FALSE,
                        afterSet |-> TRUE,
                        err |-> "failed to read config file"]
            /\ UNCHANGED <<aux, cfgGlobals, globalLoggerImpl, onceInit, pc,
                           frame, sinks, globalTraceIDProvider, lastSet,
                           bodyRuns, applied>>
       ELSE Enter(t, "InitLoggerFromFile",
                  Facade(IF reader.arg.filename = "resource/log.yaml"
                         THEN parseLogConfig(NamedFile(reader.arg),
                                             reader.arg.environ)
                         ELSE parseLoggerConfig(NamedFile(reader.arg),
                                                reader.arg.environ)))

\* the environments, directories and calls considered
NoEnviron == [ENV |-> "", APP_ENV |-> "", GO_ENV |-> "", MODE |-> "",
              SERVICE_NAME |-> "", APP_NAME |-> ""]
Environs ==
    {NoEnviron,
     [NoEnviron EXCEPT !.ENV = "prod"],
     [NoEnviron EXCEPT !.ENV = "test", !.SERVICE_NAME = "svcS"],
     [NoEnviron EXCEPT !.ENV = "dev", !.APP_ENV = "prod"],
     [NoEnviron EXCEPT !.APP_ENV = "prod", !.APP_NAME = "svcN"],
     [NoEnviron EXCEPT !.MODE = "test", !.GO_ENV = "staging"]}
WARN == <<"W","A","R","N">>
LogFiles ==
    {Absent, Unreadable}
    \cup {File("ok", set, "svcL", "prod", WARN, FALSE) :
             set \in SUBSET {"env", "level", "enable_console"}}
AppFiles ==
    {Absent, Unreadable, File("ok", {}, "svcY", "", WARN, FALSE)}
    \cup {File("ok", {"logger"} \cup set, "svcY", "", WARN, FALSE) :
             set \in SUBSET {"logger.level", "logger.enable_console"}}
AppEnvFiles ==
    {Absent, Unreadable,
     File("ok", {"logger", "logger.level", "app.name"}, "svcZ", "", DEBUG,
          FALSE)}
LoaderCalls ==
    {[entry |-> e, filename |-> "", environ |-> environ,
      dir |-> [log |-> l, app |-> a, appenv |-> ae]] :
        e \in {"InitLogger", "InitLoggerWithConfigDir"},
        environ \in Environs, l \in LogFiles, a \in AppFiles,
        ae \in AppEnvFiles}
    \cup
    {[entry |-> "InitLoggerFromFile", filename |-> f, environ |-> environ,
      dir |-> [log |-> l, app |-> a, appenv |-> Absent]] :
        f \in {"resource/log.yaml", "resource/application.yaml"},
        environ \in Environs, l \in LogFiles, a \in AppFiles}

\* ------------------------------------------------------------ GORM adapter
\* GormLogger.Trace(ctx, begin, fc, err): a nil ctx becomes
\* context.Background(); the message is built from the elapsed time, the row
\* count and the SQL; zllog.Error is called when err != nil, zllog.Debug
\* otherwise, both with module "database" and the fields source, elapsed_ms.
TraceCall(ctx, sql, rows, elapsed, err) ==
    [entry |-> IF err # Nil THEN "Error" ELSE "Debug",
     ctx |-> IF ctx = Nil THEN "bg" ELSE ctx,
     module |-> "database",
     message |-> <<elapsed, rows, sql>>,
     err |-> err,
     fields |-> <<Arg("String", "source", "gorm"),
                  Arg("Int64", "elapsed_ms", elapsed)>>]

\* the call goes through the package-level entry point to the registered
\* logger, or to the default backend when none is registered
GormLogger_Trace ==
    /\ Running
    /\ issuedTo[Nil] + issuedTo[Zerolog] + issuedTo["L1"] + issuedTo["L2"]
         < MaxLogCalls
    /\ issuedTo' = [issuedTo EXCEPT ![globalLoggerImpl] = @ + 1]
    /\ \E ctx \in {Nil, "bg", "c1"}, err \in {Nil, "e1"},
          elapsed \in {"0", "3"}, rows \in {"0", "1"} :
         LET call == TraceCall(ctx, "SELECT 1", rows, elapsed, err)
             target == getLogger
             emit == should(globalLogger, MethodLevel(call.entry))
         IN  /\ calls' = IF target \in CustomLoggers
                         THEN [calls EXCEPT ![target] = @ + 1] ELSE calls
             /\ written' = IF target = Zerolog /\ emit
                           THEN written + 1 ELSE written
             /\ last' = [op |-> "Trace",
                         in |-> [ctx |-> ctx, err |-> err,
                                 elapsed |-> elapsed],
                         call |-> call, level |-> MethodLevel(call.entry),
                         target |-> target]
    /\ UNCHANGED <<aux, cfgGlobals, globalLoggerImpl, onceInit, pc, frame,
                   globalTraceIDProvider, lastSet, bodyRuns, applied>>

\* ---------------------------------------------------------------------
\* RemoteLogger, the example backend that ships records over HTTP
\* ---------------------------------------------------------------------

\* most entries added to one RemoteLogger
MaxEntries == 2

\* config.MaxRetries
MaxRetries == 1

\* config.BatchSize
BatchSize == 2

\* Goroutines that run flush: the one that calls Stop or Fatal, the one
\* add spawned when entry n filled the batch (n itself), and flushLoop.
MainG == 0
LoopG == MaxEntries + 1
Flushers == 0..(MaxEntries + 1)

\* l.mu unlocked
Free == -1

RECURSIVE SeqToSet(_)
SeqToSet(q) == IF q = <<>> THEN {} ELSE {Head(q)} \cup SeqToSet(Tail(q))

\* a goroutine not inside flush
NotFlushing == [pc |-> "idle", batch |-> <<>>, tries |-> 0]

\* before any RemoteLogger exists
NoRemote ==
    [buffer |-> <<>>, mu |-> Free, cancelled |-> FALSE,
     loopExited |-> TRUE, main |-> "none",
     fl |-> [g \in Flushers |-> NotFlushing],
     count |-> 0, beforeStop |-> {}, fatal |-> 0,
     copies |-> [e \in 1..MaxEntries |-> 0],
     attempted |-> {}, submitted |-> {}, delivered |-> {}]

\* NewRemoteLogger(config) followed by Start(): empty buffer, live context,
\* flushLoop running
NewRemoteLogger ==
    [NoRemote EXCEPT !.loopExited = FALSE, !.main = "run"]

\* everything outside the RemoteLogger
notRemote == <<registered, reader, cfgGlobals, globalLoggerImpl, onceInit,
               pc, frame, sinks, globalTraceIDProvider, lastSet, bodyRuns,
               applied>>

\* add: under l.mu, append the entry and, when the buffer has reached the
\* batch size, go l.flush()
add(r) ==
    LET n == r.count + 1
        buffer == Append(r.buffer, n)
    IN  [r EXCEPT !.count = n,
                  !.buffer = buffer,
                  !.beforeStop = IF r.cancelled THEN @ ELSE @ \cup {n},
                  !.fl[n].pc = IF Len(buffer) >= BatchSize
                               THEN "lock" ELSE @]

\* Debug, Info, Warn, Error, ...: l.add(ctx, entry), from any goroutine
RemoteLogger_Info ==
    /\ Running
    /\ remote.main # "none"
    /\ remote.count < MaxEntries
    /\ remote.mu = Free
    /\ remote' = add(remote)
    /\ last' = Step
    /\ UNCHANGED <<process, notRemote>>

\* Fatal: l.add(ctx, entry); l.flush(); os.Exit(1)
RemoteLogger_Fatal ==
    /\ Running
    /\ remote.main = "run"
    /\ remote.count < MaxEntries
    /\ remote.mu = Free
    /\ remote' = [add(remote) EXCEPT !.fatal = remote.count + 1,
                                     !.main = "fatal_flush",
                                     !.fl[MainG].pc = "lock"]
    /\ last' = Step
    /\ UNCHANGED <<process, notRemote>>

\* Fatal, after its l.flush() has returned: os.Exit(1)
RemoteLogger_Fatal_Exit ==
    /\ Running
    /\ remote.main = "fatal_flush"
    /\ remote.fl[MainG].pc = "idle"
    /\ process' = [exited |-> TRUE, code |-> FatalExit]
    /\ remote' = [remote EXCEPT !.main = "exited"]
    /\ last' = Step
    /\ UNCHANGED notRemote

\* Stop: l.cancel()
RemoteLogger_Stop ==
    /\ Running
    /\ remote.main = "run"
    /\ remote' = [remote EXCEPT !.cancelled = TRUE, !.main = "stop_wait"]
    /\ last' = Step
    /\ UNCHANGED <<process, notRemote>>

\* Stop: l.wg.Wait() returns once flushLoop has returned; then l.flush()
RemoteLogger_Stop_Wait ==
    /\ Running
    /\ remote.main = "stop_wait"
    /\ remote.loopExited
    /\ remote' = [remote EXCEPT !.main = "stop_flush",
                                !.fl[MainG].pc = "lock"]
    /\ last' = Step
    /\ UNCHANGED <<process, notRemote>>

\* Stop returns after its l.flush()
RemoteLogger_Stop_Return ==
    /\ Running
    /\ remote.main = "stop_flush"
    /\ remote.fl[MainG].pc = "idle"
    /\ remote' = [remote EXCEPT !.main = "stopped"]
    /\ last' = Step
    /\ UNCHANGED <<process, notRemote>>

\* flushLoop: case <-ticker.C: l.flush()
flushLoop_Tick ==
    /\ Running
    /\ ~remote.loopExited
    /\ remote.fl[LoopG].pc = "idle"
    /\ remote' = [remote EXCEPT !.fl[LoopG].pc = "lock"]
    /\ last' = Step
    /\ UNCHANGED <<process, notRemote>>

\* flushLoop: case <-l.ctx.Done(): return (defer l.wg.Done())
flushLoop_Done ==
    /\ Running
    /\ ~remote.loopExited
    /\ remote.fl[LoopG].pc = "idle"
    /\ remote.cancelled
    /\ remote' = [remote EXCEPT !.loopExited = TRUE]
    /\ last' = Step
    /\ UNCHANGED <<process, notRemote>>

\* flush without l.mu: the buffer is examined whoever holds the mutex
flush_Lock_NoMutex(g) ==
    /\ Running
    /\ remote.fl[g].pc = "lock"
    /\ remote' = IF remote.buffer = <<>>
                 THEN [remote EXCEPT !.fl[g] = NotFlushing]
                 ELSE [remote EXCEPT !.fl[g].pc = "copy"]
    /\ last' = Step
    /\ UNCHANGED <<process, notRemote>>

\* flush: l.mu.Lock(); if len(l.buffer) == 0 { l.mu.Unlock(); return }
flush_Lock(g) ==
    /\ Running
    /\ remote.fl[g].pc = "lock"
    /\ remote.mu = Free
    /\ remote' = IF remote.buffer = <<>>
                 THEN [remote EXCEPT !.fl[g] = NotFlushing]
                 ELSE [remote EXCEPT !.mu = g, !.fl[g].pc = "copy"]
    /\ last' = Step
    /\ UNCHANGED <<process, notRemote>>

\* flush: entries := make(...); copy(entries, l.buffer)
flush_Copy(g) ==
    /\ Running
    /\ remote.fl[g].pc = "copy"
    /\ remote' = [remote EXCEPT
                    !.fl[g] = [pc |-> "clear", batch |-> remote.buffer,
                               tries |-> 0],
                    !.copies = [e \in 1..MaxEntries |->
                                  IF e \in SeqToSet(remote.buffer)
                                  THEN @[e] + 1 ELSE @[e]]]
    /\ last' = Step
    /\ UNCHANGED <<process, notRemote>>

\* flush: l.buffer = l.buffer[:0]; l.mu.Unlock()
flush_Clear(g) ==
    /\ Running
    /\ remote.fl[g].pc = "clear"
    /\ remote' = [remote EXCEPT !.buffer = <<>>, !.mu = Free,
                                !.fl[g].pc = "send"]
    /\ last' = Step
    /\ UNCHANGED <<process, notRemote>>

\* send: the request is built with l.ctx, so client.Do fails at once when
\* the context is cancelled; otherwise the endpoint answers or does not.
\* flush: one send, then up to MaxRetries more while it fails.
flush_Send(g) ==
    /\ Running
    /\ remote.fl[g].pc = "send"
    /\ \E ok \in (IF remote.cancelled THEN {FALSE} ELSE BOOLEAN) :
         LET batch == SeqToSet(remote.fl[g].batch)
             more == ~ok /\ remote.fl[g].tries < MaxRetries
         IN  remote' = [remote EXCEPT
                 !.attempted = @ \cup batch,
                 !.submitted = IF remote.cancelled THEN @ ELSE @ \cup batch,
                 !.delivered = IF ok THEN @ \cup batch ELSE @,
                 !.fl[g].pc = IF more THEN "send" ELSE "idle",
                 !.fl[g].tries = IF more THEN @ + 1 ELSE @]
    /\ last' = Step
    /\ UNCHANGED <<process, notRemote>>

\* l.flush(), on whichever goroutine runs it
flush(g) ==
    \/ flush_Lock(g)
    \/ flush_Copy(g)
    \/ flush_Clear(g)
    \/ flush_Send(g)

\* ------------------------------------------------------ the specifications
Init ==
    /\ globalLogger = ZeroLogger
    /\ onceInit = [done |-> 0, m |-> Nil]
    /\ serviceName = ""
    /\ envName = ""
    /\ hostName = ""
    /\ globalTraceIDProvider = Nil
    /\ globalLoggerImpl = Nil
    /\ gLevel = DebugLevel
    /\ pc = [t \in Threads |-> "idle"]
    /\ frame = [t \in Threads |-> NoFrame]
    /\ calls = [l \in CustomLoggers |-> 0]
    /\ written = 0
    /\ last = [op |-> "start"]
    /\ issuedTo = [l \in Loggers \cup {Zerolog} |-> 0]
    /\ lastSet = NoSet
    /\ bodyRuns = 0
    /\ applied = NoConfig
    /\ registered = Nil
    /\ process = [exited |-> FALSE, code |-> 0]
    /\ remote = NoRemote
    /\ reader = Idle

\* one thread's steps through an initialization call
InitSteps(t) ==
    \/ InitLoggerWithConfig(t)
    \/ InitLoggerWithConfigDir(t)
    \/ InitLogger(t)
    \/ InitLoggerFromFile(t)
    \/ OnceDoSlow(t)
    \/ BodySaveService(t)
    \/ BodySaveEnv(t)
    \/ BodyHostname(t)
    \/ BodyParseLevel(t)
    \/ BodyCreateLogger(t)
    \/ BodyInstallImpl(t)
    \/ BodyInitMessage(t)
    \/ OnceFinish(t)
    \/ InitReturn(t)

\* Spec: concurrent initialization calls and the logger registry
Next ==
    \/ \E t \in Threads : InitSteps(t)
    \/ \E l \in Loggers : SetLogger(l)
    \/ GetLogger

Spec == Init /\ [][Next]_vars

\* SpecLog: the entry points, the registry and one initializing thread
NextLog ==
    \/ InitSteps("t1")
    \/ \E l \in Loggers : SetLogger(l)
    \/ Debug
    \/ Info
    \/ Warn
    \/ Error
    \/ ErrorWithCode
    \/ InfoWithRequest
    \/ ErrorWithRequest

SpecLog == Init /\ [][NextLog]_vars

\* SpecTrace: provider registration and trace-id resolution
NextTrace ==
    \/ \E p \in Providers \cup {Nil} : RegisterTraceIDProvider(p)
    \/ \E ctx \in Contexts : GetOrCreateTraceID(ctx)

SpecTrace == Init /\ [][NextTrace]_vars

\* SpecTraceRace: a resolution in flight while providers are registered
NextTraceRace ==
    \/ \E p \in Providers \cup {Nil} : Running /\ RegisterTraceIDProvider(p)
    \/ \E ctx \in Contexts : GetOrCreateTraceID_Enter(ctx)
    \/ GetOrCreateTraceID_Check
    \/ GetOrCreateTraceID_Call
    \/ GetOrCreateTraceID_Generate

SpecTraceRace == Init /\ [][NextTraceRace]_vars

\* SpecLogRace: a logging call in flight while the logger is switched
NextLogRace ==
    \/ \E l \in Loggers : Running /\ SetLogger(l)
    \/ \E m \in Methods, in \in Inputs : EntryPoint_Enter(m, in)
    \/ getLogger_Check
    \/ getLogger_Return
    \/ EntryPoint_Dispatch

SpecLogRace == Init /\ [][NextLogRace]_vars

\* SpecBackend: one call of a ZerologLogger method, made either before any
\* initialization (the logger is the zero zerolog.Logger) or after
\* InitLoggerWithConfig(c) has completed, with or without a provider
InitBackend ==
    /\ \E c \in {NoConfig, CfgA, CfgB, CfgW, CfgE, CfgF} :
         IF c = NoConfig
         THEN /\ globalLogger = ZeroLogger
              /\ onceInit = [done |-> 0, m |-> Nil]
              /\ serviceName = ""
              /\ envName = ""
              /\ hostName = ""
              /\ globalLoggerImpl = Nil
              /\ gLevel = DebugLevel
              /\ written = 0
              /\ bodyRuns = 0
              /\ applied = NoConfig
         ELSE /\ globalLogger = [w |-> TRUE,
                                 level |-> parseLevel(c.LogLevel)[1],
                                 service |-> c.ServiceName,
                                 env |-> c.Env,
                                 host |-> "host1"]
              /\ onceInit = [done |-> 1, m |-> Nil]
              /\ serviceName = c.ServiceName
              /\ envName = c.Env
              /\ hostName = "host1"
              /\ globalLoggerImpl = Zerolog
              /\ gLevel = parseLevel(c.LogLevel)[1]
              /\ written = IF parseLevel(c.LogLevel)[1] <= InfoLevel
                           THEN 1 ELSE 0
              /\ bodyRuns = 1
              /\ applied = c
    /\ \E p \in {Nil, "P2"} :
         /\ globalTraceIDProvider = p
         /\ registered = p
    /\ \E fields \in FieldLists :
         reader = [pc |-> "backend", arg |-> fields, got |-> None,
                   during |-> {}]
    /\ pc = [t \in Threads |-> "idle"]
    /\ frame = [t \in Threads |-> NoFrame]
    /\ calls = [l \in CustomLoggers |-> 0]
    /\ last = [op |-> "start"]
    /\ issuedTo = [l \in Loggers \cup {Zerolog} |-> 0]
    /\ lastSet = NoSet
    /\ process = [exited |-> FALSE, code |-> 0]
    /\ remote = NoRemote

NextBackend ==
    \/ ZerologLogger_Debug
    \/ ZerologLogger_Info
    \/ ZerologLogger_Warn
    \/ ZerologLogger_Error
    \/ ZerologLogger_ErrorWithCode
    \/ ZerologLogger_Fatal
    \/ ZerologLogger_InfoWithRequest
    \/ ZerologLogger_ErrorWithRequest

SpecBackend == InitBackend /\ [][NextBackend]_vars

\* SpecGorm: the GORM adapter's Trace and the logger registry
NextGorm ==
    \/ \E l \in Loggers : SetLogger(l)
    \/ GormLogger_Trace

SpecGorm == Init /\ [][NextGorm]_vars

\* SpecConfig: a process with a given environment and configuration
\* directory loads its configuration and initializes from it
InitConfig ==
    /\ globalLogger = ZeroLogger
    /\ onceInit = [done |-> 0, m |-> Nil]
    /\ serviceName = ""
    /\ envName = ""
    /\ hostName = ""
    /\ globalTraceIDProvider = Nil
    /\ globalLoggerImpl = Nil
    /\ gLevel = DebugLevel
    /\ pc = [t \in Threads |-> "idle"]
    /\ frame = [t \in Threads |-> NoFrame]
    /\ calls = [l \in CustomLoggers |-> 0]
    /\ written = 0
    /\ last = [op |-> "start"]
    /\ issuedTo = [l \in Loggers \cup {Zerolog} |-> 0]
    /\ lastSet = NoSet
    /\ bodyRuns = 0
    /\ applied = NoConfig
    /\ registered = Nil
    /\ process = [exited |-> FALSE, code |-> 0]
    /\ remote = NoRemote
    /\ \E call \in LoaderCalls :
         reader = [pc |-> "files", arg |-> call, got |-> None, during |-> {}]

NextConfig ==
    \/ ConfigLoader_LoadConfig
    \/ InitLogger_Load("t1")
    \/ InitLoggerWithConfigDir_Load("t1")
    \/ InitLoggerFromFile_Load("t1")
    \/ OnceDoSlow("t1")
    \/ BodySaveService("t1")
    \/ BodySaveEnv("t1")
    \/ BodyHostname("t1")
    \/ BodyParseLevel("t1")
    \/ BodyCreateLogger("t1")
    \/ BodyInstallImpl("t1")
    \/ BodyInitMessage("t1")
    \/ OnceFinish("t1")
    \/ InitReturn("t1")

SpecConfig == InitConfig /\ [][NextConfig]_vars

\* ================================================================== claims
\* the severity names of the configuration surface, and the extra spelling
\* parseLevel also accepts
NamedLevels == {<<"D","E","B","U","G">>, <<"I","N","F","O">>,
                <<"W","A","R","N">>, <<"E","R","R","O","R">>,
                <<"F","A","T","A","L">>}
Recognized(c) == \E n \in NamedLevels : ToUpper(c.LogLevel) = n
Accepted(c) ==
    Recognized(c) \/ ToUpper(c.LogLevel) = <<"W","A","R","N","I","N","G">>

\* C1: a GetLogger() that directly follows SetLogger(L) returns exactly L,
\* whatever SetLogger / initialization calls came before.
C1_SetThenGet ==
    (last.op = "GetLogger" /\ last.after # None) => last.value = last.after

C1_Witness ==
    /\ last.op = "GetLogger"
    /\ last.after \in CustomLoggers
    /\ last.value = last.after
    /\ InitCompleted

\* C2: while a custom logger L is registered, every entry-point call reaches
\* L and only L, as one call of the same-named method with the same module
\* and message: L has received exactly as many calls as were issued to it,
\* the last one being the last issued, and the default backend has written
\* nothing for them.
C2_DispatchToRegistered ==
    /\ (last.op = "Log" /\ last.impl \in CustomLoggers) =>
          /\ last.target = last.impl
          /\ last.delivered = [method |-> last.entry,
                               module |-> last.in.module,
                               message |-> last.in.message]
    /\ \A l \in CustomLoggers : calls[l] = issuedTo[l]
    /\ written <= issuedTo[Nil] + issuedTo[Zerolog] + bodyRuns

C2_Witness ==
    /\ last.op = "Log"
    /\ last.impl = "L1"
    /\ last.target = "L1"
    /\ calls["L1"] = 2
    /\ written = 0

\* C3: once the first InitLoggerWithConfig has applied a valid configuration,
\* that configuration stays active (service name, env, level, default
\* backend); a later call does not run the body, changes no global and
\* returns nil.
C3_FirstConfigStays ==
    /\ [](/\ (InitCompleted /\ Accepted(applied)) =>
                /\ serviceName = applied.ServiceName
                /\ envName = applied.Env
                /\ gLevel = parseLevel(applied.LogLevel)[1]
                /\ globalLogger = [w |-> TRUE,
                                   level |-> parseLevel(applied.LogLevel)[1],
                                   service |-> applied.ServiceName,
                                   env |-> applied.Env,
                                   host |-> hostName]
          /\ (last.op = "Init" /\ last.reached /\ ~last.ran) =>
                last.err = Nil)
    /\ [][\A t \in Threads :
            (pc'[t] # pc[t] /\ ~frame[t].ran /\ ~frame'[t].ran) =>
               UNCHANGED <<cfgGlobals, globalLoggerImpl>>]_vars

C3_Witness ==
    /\ last.op = "Init"
    /\ last.reached
    /\ ~last.ran
    /\ last.err = Nil
    /\ Recognized(last.config)
    /\ Recognized(applied)
    /\ last.config # applied
    /\ serviceName = applied.ServiceName
    /\ globalLoggerImpl = Zerolog

\* C4: under concurrent first-time InitLoggerWithConfig calls the body runs
\* exactly once, and no caller returns before that run has completed.
C4_BodyOnce ==
    /\ bodyRuns <= 1
    /\ \A t \in Threads :
          pc[t] = "return" =>
             /\ bodyRuns = 1
             /\ onceInit.done = 1
             /\ \A u \in Threads : pc[u] \notin BodyPcs
    /\ (last.op = "Init" /\ last.reached) => InitCompleted

C4_Witness ==
    /\ last.op = "Init"
    /\ last.reached
    /\ last.slow
    /\ ~last.ran
    /\ bodyRuns = 1

C6_NoMixedState ==
    \/ /\ serviceName = ""
       /\ envName = ""
       /\ globalLogger = ZeroLogger
       /\ lastSet.phase = None => globalLoggerImpl = Nil
    \/ \E c \in Configs :
          /\ Accepted(c)
          /\ serviceName = c.ServiceName
          /\ envName = c.Env
          /\ globalLogger.w
          /\ globalLogger.service = c.ServiceName
          /\ globalLogger.env = c.Env
          /\ globalLogger.level = parseLevel(c.LogLevel)[1]
          /\ lastSet.phase = None => globalLoggerImpl = Zerolog

\* C7: a logger L registered with SetLogger before the first initialization
\* is still what GetLogger returns after that initialization has completed.
C7_OverrideSurvivesInit ==
    (lastSet.phase = "before" /\ lastSet.logger \in CustomLoggers
       /\ InitCompleted)
    => globalLoggerImpl = lastSet.logger

\* C8: a logger registered with SetLogger after initialization has completed
\* stays the active logger across all later initialization calls.
C8_LaterInitKeepsLogger ==
    lastSet.phase = "after" => globalLoggerImpl = lastSet.logger

C8_Witness ==
    /\ lastSet.phase = "after"
    /\ lastSet.logger \in CustomLoggers
    /\ last.op = "Init"
    /\ last.reached
    /\ last.afterSet
    /\ globalLoggerImpl = lastSet.logger

\* C9: an entry-point call made when no logger was ever registered and no
\* initialization has run still emits an output record.
C9_UninitializedCallEmits ==
    (last.op = "Log" /\ last.uninit /\ last.impl = Nil) => last.emitted

\* C10: GetOrCreateTraceID never returns the empty string; with no provider,
\* or a provider that returns "" for the context, the result has exactly 32
\* characters, all in 0-9a-f.
C10_TraceIDNeverEmpty ==
    last.op = "GetOrCreateTraceID" =>
        /\ last.id # <<>>
        /\ (last.provider = Nil
              \/ ProviderGetTraceID(last.provider, last.ctx) = <<>>) =>
              /\ Len(last.id) = 32
              /\ \A i \in 1..Len(last.id) :
                    \E k \in 1..16 : hextable[k] = last.id[i]

C10_Witness ==
    /\ last.op = "GetOrCreateTraceID"
    /\ last.provider \in Providers
    /\ ProviderGetTraceID(last.provider, last.ctx) = <<>>
    /\ Len(last.id) = 32
    /\ last.id[1] = "f"

\* C11: after any sequence of RegisterTraceIDProvider calls, a resolution
\* consults the provider of the latest registration and no other, and when
\* that provider returns a non-empty id the result is that id, character for
\* character, whatever its format.
C11_LatestProviderVerbatim ==
    last.op = "GetOrCreateTraceID" =>
        /\ last.provider = registered
        /\ (registered # Nil /\ ProviderGetTraceID(registered, last.ctx) # <<>>)
              => last.id = ProviderGetTraceID(registered, last.ctx)

C11_Witness ==
    /\ last.op = "GetOrCreateTraceID"
    /\ registered = "P2"
    /\ last.ctx = "c1"
    /\ last.id = <<"X","-","1">>

\* C12: in every interleaving of RegisterTraceIDProvider(p), p a provider or
\* nil, with a resolution, the resolution does not fail, and what it returns
\* is the id of a provider that was in the slot at some instant of the call,
\* or a generated id.
C12_ResolutionSurvivesRegistration ==
    /\ reader.pc # "panicked"
    /\ last.op = "Resolved" =>
          \/ last.generated
          \/ \E p \in last.during \ {Nil} :
                last.id = ProviderGetTraceID(p, last.ctx)

\* C13: in every interleaving of SetLogger(x) with a package-level logging
\* call, the call never invokes a method on an absent logger, and the logger
\* it is dispatched to is one that the slot selected at some instant of the
\* call: the registered logger, or the default backend when the slot was
\* unset.
C13_SwitchIsAtomic ==
    /\ reader.pc # "panicked"
    /\ last.op = "Dispatched" =>
          \E x \in last.during :
              last.target = IF x = Nil THEN Zerolog ELSE x

\* what a claim about the default backend looks at: the event of the latest
\* call, when it was written
Wrote == last.op = "Backend" /\ last.emitted
Has(ev, key) == \E i \in 1..Len(ev) : ev[i].key = key
Own(ev, key) == {i \in 1..Len(ev) : ev[i].key = key /\ ev[i].src = 0}
Supplied(a, key) ==
    \E k \in 1..Len(a.fields) : NewField(a.fields[k]).Key = key

\* C14: every record the default backend writes, for every method and every
\* argument value, carries a module tag that is not the empty string and a
\* trace_id that is not the empty string.
C14_ModuleAndTraceNonEmpty ==
    Wrote =>
        /\ \E i \in Own(last.event, "module") : last.event[i].value # ""
        /\ \E i \in Own(last.event, "trace_id") : last.event[i].value # <<>>

\* C15: a Fatal call on the default backend ends the process with a non-zero
\* exit status, and the process ends that way only once the fatal record has
\* been handed to the writer.
C15_FatalExitsAfterRecord ==
    /\ (last.op = "Backend" /\ last.method = "Fatal") =>
          process.exited /\ process.code # 0
    /\ process.exited =>
          /\ last.op = "Backend"
          /\ last.method = "Fatal"
          /\ last.emitted

\* C16: a written record contains request_id exactly when the call is an
\* InfoWithRequest / ErrorWithRequest with a non-empty requestID, and cost_ms
\* exactly when it is one with costMs > 0, unless the caller supplies a Field
\* of that name; the pair the method attaches carries the argument's value.
\* Records of the other methods contain neither unless the caller supplies it.
C16_RequestFields ==
    Wrote =>
        LET ev == last.event
            a == last.args
            req == last.method \in WithRequest
        IN  /\ Has(ev, "request_id") <=>
                   ((req /\ a.requestID # "") \/ Supplied(a, "request_id"))
            /\ Has(ev, "cost_ms") <=>
                   ((req /\ a.costMs > 0) \/ Supplied(a, "cost_ms"))
            /\ \A i \in Own(ev, "request_id") : ev[i].value = a.requestID
            /\ \A i \in Own(ev, "cost_ms") : ev[i].value = a.costMs

C16_Witness ==
    /\ Wrote
    /\ last.method = "InfoWithRequest"
    /\ last.args.requestID = "req-1"
    /\ last.args.costMs = 0
    /\ last.args.fields = <<>>
    /\ \E i \in Own(last.event, "request_id") : last.event[i].value = "req-1"
    /\ ~Has(last.event, "cost_ms")

\* C17: a written record of Error, ErrorWithCode, Fatal or ErrorWithRequest
\* carries an error pair made from the err argument exactly when err is not
\* nil, and a record of ErrorWithCode carries error_code with the given code.
C17_ErrorFields ==
    (Wrote /\ last.method \in WithErr) =>
        LET ev == last.event
            a == last.args
        IN  /\ (Own(ev, "error") # {}) <=> (a.err # Nil)
            /\ \A i \in Own(ev, "error") : ev[i].value = a.err
            /\ last.method = "ErrorWithCode" =>
                  \E i \in Own(ev, "error_code") : ev[i].value = a.errorCode

C17_Witness ==
    /\ Wrote
    /\ last.method = "ErrorWithCode"
    /\ last.args.err = "e1"
    /\ last.args.errorCode = "E42"
    /\ \E i \in Own(last.event, "error") : last.event[i].value = "e1"
    /\ \E i \in Own(last.event, "error_code") : last.event[i].value = "E42"

\* C18: the field dispatch is total and drops nothing: for every Field of a
\* written record, whatever its kind (an array or dict of zero elements
\* included), addFields appends exactly one pair, and a value of a type the
\* switch does not list is appended through the opaque fallback.
C18_EveryFieldRendered ==
    Wrote =>
        \A k \in 1..Len(last.args.fields) :
            /\ Cardinality({i \in 1..Len(last.event) :
                               last.event[i].src = k}) = 1
            /\ NewField(last.args.fields[k]).Type \in {"struct", "nil"} =>
                  \E i \in 1..Len(last.event) :
                      /\ last.event[i].src = k
                      /\ last.event[i].kind = "Interface"

\* C19: every pair appended for a Field is under that Field's own Key; a
\* NamedErr(key, err) with a non-nil err appears under key.
C19_FieldUnderOwnKey ==
    Wrote =>
        /\ \A i \in 1..Len(last.event) :
              last.event[i].src > 0 =>
                 last.event[i].key =
                    NewField(last.args.fields[last.event[i].src]).Key
        /\ \A k \in 1..Len(last.args.fields) :
              (last.args.fields[k].ctor = "NamedErr"
                 /\ last.args.fields[k].value # Nil) =>
                 \E i \in 1..Len(last.event) :
                     /\ last.event[i].src = k
                     /\ last.event[i].key = last.args.fields[k].key

\* C20: for Dict(k, f1..fn) and Array(k, f1..fn) with n > 0 the value written
\* under k carries every fi, key and value, in order, as a nested object for
\* Dict and as a sequence for Array.
C20_NestedFieldsRendered ==
    Wrote =>
        \A k \in 1..Len(last.args.fields) :
            LET f == last.args.fields[k] IN
            (f.ctor \in {"Dict", "Array"} /\ Len(f.children) > 0) =>
                \E i \in 1..Len(last.event) :
                    LET e == last.event[i] IN
                    /\ e.src = k
                    /\ e.key = f.key
                    /\ e.kind = f.ctor
                    /\ Len(e.children) = Len(f.children)
                    /\ \A j \in 1..Len(f.children) :
                          /\ e.children[j].key = f.children[j].key
                          /\ e.children[j].value = f.children[j].value

\* the minimum severity a configuration asks for, in the fixed order
\* debug < info < warn < error < fatal
LevelNames == <<(<<"D","E","B","U","G">>), (<<"I","N","F","O">>),
                (<<"W","A","R","N">>), (<<"E","R","R","O","R">>),
                (<<"F","A","T","A","L">>)>>
Severity(c) ==
    IF ToUpper(c.LogLevel) = <<"W","A","R","N","I","N","G">> THEN 2
    ELSE CHOOSE k \in 0..4 : LevelNames[k + 1] = ToUpper(c.LogLevel)

\* C21: after initialization with minimum severity S, a default-backend call
\* at level L hands the writer exactly one more record when L >= S and none
\* when L < S; the record written carries the given module, the given
\* message and a trace_id.
C21_LevelFilter ==
    [][(reader.pc = "backend" /\ reader'.pc = "idle" /\ bodyRuns > 0) =>
          /\ written' - written =
                IF last'.level >= Severity(applied) THEN 1 ELSE 0
          /\ last'.emitted <=> (last'.level >= Severity(applied))
          /\ last'.emitted =>
                /\ last'.message = last'.args.message
                /\ \E i \in Own(last'.event, "module") :
                      last'.event[i].value = last'.args.module
                /\ Own(last'.event, "trace_id") # {}]_vars

C21_Witness ==
    /\ Wrote
    /\ last.method = "Info"
    /\ applied = CfgA
    /\ written = 2
    /\ last.args.module = "api"

\* no file of the directory sets a level or the console output
SetsNeither(f) ==
    f.state = "ok" =>
        f.set \cap {"level", "enable_console", "logger.level",
                    "logger.enable_console"} = {}
NoFileSetsLevelOrConsole(dir) ==
    SetsNeither(dir.log) /\ SetsNeither(dir.app) /\ SetsNeither(dir.appenv)

\* C22: when no configuration file sets level or console output, the
\* configuration the loader produces has level INFO and console output off
\* for env prod, level INFO and console output on for env test, level DEBUG
\* and console output on for env dev.
C22_AdjustedByEnv ==
    (last.op = "LoadConfig" /\ NoFileSetsLevelOrConsole(reader.arg.dir)) =>
        /\ last.config.Env = "prod" =>
              last.config.LogLevel = INFO /\ ~last.config.EnableConsole
        /\ last.config.Env = "test" =>
              last.config.LogLevel = INFO /\ last.config.EnableConsole
        /\ last.config.Env = "dev" =>
              last.config.LogLevel = DEBUG /\ last.config.EnableConsole

\* the files an initialization entry point tries to read, in its order,
\* include one that exists but cannot be read or parsed
ReadsUnreadable(arg) ==
    IF arg.entry = "InitLoggerFromFile"
    THEN NamedFile(arg).state = "unreadable"
    ELSE \/ arg.dir.log.state = "unreadable"
         \/ /\ arg.dir.log.state = "absent"
            /\ arg.dir.app.state = "unreadable"
         \/ /\ arg.dir.log.state = "absent"
            /\ \/ arg.dir.app.state = "absent"
               \/ arg.dir.app.state = "ok" /\ "logger" \notin arg.dir.app.set
            /\ arg.dir.appenv.state = "unreadable"

\* C23: when a configuration file exists but cannot be read or parsed,
\* InitLogger / InitLoggerWithConfigDir / InitLoggerFromFile return an error:
\* no such call returns nil, initialized from another source or from defaults.
C23_UnreadableConfigFails ==
    (last.op = "Init" /\ ReadsUnreadable(reader.arg)) => last.err # Nil

\* C24: the GORM adapter's Trace logs a failed execution (err != nil) at
\* ERROR level and a successful one at INFO level, either way with module
\* "database", the fields source=gorm and elapsed_ms, and a background
\* context in place of a nil one.
C24_TraceLevels ==
    last.op = "Trace" =>
        /\ last.level = IF last.in.err # Nil THEN ErrorLevel ELSE InfoLevel
        /\ last.call.module = "database"
        /\ \E k \in 1..Len(last.call.fields) :
              /\ last.call.fields[k].key = "source"
              /\ last.call.fields[k].value = "gorm"
        /\ \E k \in 1..Len(last.call.fields) :
              /\ last.call.fields[k].key = "elapsed_ms"
              /\ last.call.fields[k].value = last.in.elapsed
        /\ last.call.ctx = IF last.in.ctx = Nil THEN "bg" ELSE last.in.ctx

\* C25: a default-backend call below the configured minimum severity does
\* nothing beyond the level comparison: no trace id is resolved (the
\* registered provider is not invoked, no id is generated), the caller
\* location is not resolved, and no Field is dispatched.
C25_BelowThresholdDoesNothing ==
    (last.op = "Backend" /\ bodyRuns > 0 /\ ~last.emitted) =>
        /\ ~last.work.traceID
        /\ ~last.work.provider
        /\ ~last.work.generated
        /\ ~last.work.caller
        /\ last.work.fields = 0

\* ---------------------------------------------------------------------
\* Caller location (zerolog_logger.go, getCaller)
\* ---------------------------------------------------------------------

\* Function names and file paths are sequences of characters.  Function
\* names are written from the last path element on ("zllog.Info" for
\* "github.com/zlxdbj/zllog.Info").

\* most user frames on a calling goroutine's stack
MaxDepth == 4

\* contains(funcName, "zllog.")
ZllogDot ==
    <<"z", "l", "l", "o", "g", ".">>

\* strings.Contains(s, substr)
contains(s, substr) ==
    \E i \in 1..(Len(s) - Len(substr) + 1) :
        SubSeq(s, i, i + Len(substr) - 1) = substr

\* one frame of a goroutine's stack, as runtime.Caller and
\* runtime.FuncForPC report it
StackFrame(fn, file, line) == [fn |-> fn, file |-> file, line |-> line]

\* getCaller itself: runtime.Caller(0)
Frame_getCaller ==
    StackFrame(<<"z", "l", "l", "o", "g", ".", "g", "e", "t", "C", "a", "l", "l", "e", "r">>,
               <<"/", "z", "l", "l", "o", "g", "/", "z", "e", "r", "o", "l", "o", "g", "_", "l", "o", "g", "g", "e", "r", ".", "g", "o">>,
               37)

\* the ZerologLogger method that calls getCaller()
Frame_Method ==
    StackFrame(<<"z", "l", "l", "o", "g", ".", "(", "*", "Z", "e", "r", "o", "l", "o", "g", "L", "o", "g", "g", "e", "r", ")", ".", "I", "n", "f", "o">>,
               <<"/", "z", "l", "l", "o", "g", "/", "z", "e", "r", "o", "l", "o", "g", "_", "l", "o", "g", "g", "e", "r", ".", "g", "o">>,
               146)

\* the package-level entry point that calls getLogger().Info
Frame_EntryPoint ==
    StackFrame(<<"z", "l", "l", "o", "g", ".", "I", "n", "f", "o">>,
               <<"/", "z", "l", "l", "o", "g", "/", "z", "l", "l", "o", "g", ".", "g", "o">>,
               395)

\* frames of the program that logs
Frame_Handler ==
    StackFrame(<<"m", "a", "i", "n", ".", "h", "a", "n", "d", "l", "e">>,
               <<"/", "a", "p", "p", "/", "h", "a", "n", "d", "l", "e", "r", ".", "g", "o">>,
               42)

Frame_Main ==
    StackFrame(<<"m", "a", "i", "n", ".", "m", "a", "i", "n">>,
               <<"/", "a", "p", "p", "/", "m", "a", "i", "n", ".", "g", "o">>,
               7)

\* a function of package zllog that logs (its tests do)
Frame_InPackage ==
    StackFrame(<<"z", "l", "l", "o", "g", ".", "T", "e", "s", "t", "I", "n", "f", "o">>,
               <<"/", "z", "l", "l", "o", "g", "/", "z", "l", "l", "o", "g", "_", "t", "e", "s", "t", ".", "g", "o">>,
               12)

\* the bottom frame of every goroutine
Frame_goexit ==
    StackFrame(<<"r", "u", "n", "t", "i", "m", "e", ".", "g", "o", "e", "x", "i", "t">>,
               <<"/", "g", "o", "/", "a", "s", "m", ".", "s">>,
               1700)

UserFrames == {Frame_Handler, Frame_Main, Frame_InPackage}

RECURSIVE SeqsUpTo(_, _)
SeqsUpTo(S, n) ==
    IF n = 0 THEN {<<>>}
    ELSE LET shorter == SeqsUpTo(S, n - 1)
         IN  shorter \cup {<<x>> \o q : x \in S, q \in {r \in shorter : Len(r) = n - 1}}

\* the two routes into a ZerologLogger method
Routes == {"package", "direct"}

\* the stack getCaller sees, innermost frame first: itself, the method,
\* the entry point when the call came through one, the caller's frames,
\* and the goroutine's bottom frame
StackOf(route, user) ==
    <<Frame_getCaller, Frame_Method>>
    \o (IF route = "package" THEN <<Frame_EntryPoint>> ELSE <<>>)
    \o user \o <<Frame_goexit>>

\* for i := len(file) - 1; i > 0; i-- { if file[i] == '/' ... }
\* (Go indexes from 0: the first character is never examined)
RECURSIVE shortFileFrom(_, _)
shortFileFrom(file, i) ==
    IF i <= 1 THEN file
    ELSE IF file[i] \in {"/", "\\"}
         THEN SubSeq(file, i + 1, Len(file))
         ELSE shortFileFrom(file, i - 1)

shortFile(file) == shortFileFrom(file, Len(file))

\* %d
RECURSIVE FormatInt(_)
FormatInt(n) ==
    LET digit == <<"0", "1", "2", "3", "4", "5", "6", "7", "8", "9">>
    IN  IF n < 10 THEN <<digit[n + 1]>>
        ELSE FormatInt(n \div 10) \o <<digit[(n % 10) + 1]>>

\* fmt.Sprintf("%s:%d", shortFile, line)
Sprintf(file, line) == file \o <<":">> \o FormatInt(line)

\* return "unknown:0"
Unknown == <<"u", "n", "k", "n", "o", "w", "n", ":", "0">>

\* for skip := 3; skip <= 6; skip++
FirstSkip == 3
LastSkip == 6

\* runtime.Caller(skip): ok is false past the end of the stack
CallerOk(stack, skip) == skip + 1 <= Len(stack)

RECURSIVE getCallerFrom(_, _)
getCallerFrom(stack, skip) ==
    IF skip > LastSkip THEN Unknown
    ELSE IF ~CallerOk(stack, skip) THEN getCallerFrom(stack, skip + 1)
    ELSE IF contains(stack[skip + 1].fn, ZllogDot)
         THEN getCallerFrom(stack, skip + 1)
    ELSE Sprintf(shortFile(stack[skip + 1].file), stack[skip + 1].line)

getCaller(stack) == getCallerFrom(stack, FirstSkip)

\* a ZerologLogger method resolving its caller: on the goroutine whose
\* user frames were drawn at the start, through the route drawn with them
ZerologLogger_getCaller ==
    /\ reader.pc = "stack"
    /\ last' = [op |-> "getCaller",
                route |-> reader.arg.route,
                stack |-> StackOf(reader.arg.route, reader.arg.user),
                caller |-> getCaller(StackOf(reader.arg.route,
                                             reader.arg.user))]
    /\ reader' = Idle
    /\ UNCHANGED <<remote, registered, process, cfgGlobals, globalLoggerImpl,
                   onceInit, pc, frame, sinks, globalTraceIDProvider,
                   lastSet, bodyRuns, applied>>

InitCaller ==
    /\ globalLogger = ZeroLogger
    /\ onceInit = [done |-> 0, m |-> Nil]
    /\ serviceName = ""
    /\ envName = ""
    /\ hostName = ""
    /\ globalTraceIDProvider = Nil
    /\ globalLoggerImpl = Nil
    /\ gLevel = DebugLevel
    /\ pc = [t \in Threads |-> "idle"]
    /\ frame = [t \in Threads |-> NoFrame]
    /\ calls = [l \in CustomLoggers |-> 0]
    /\ written = 0
    /\ last = [op |-> "start"]
    /\ issuedTo = [l \in Loggers \cup {Zerolog} |-> 0]
    /\ lastSet = NoSet
    /\ bodyRuns = 0
    /\ applied = NoConfig
    /\ registered = Nil
    /\ process = [exited |-> FALSE, code |-> 0]
    /\ remote = NoRemote
    /\ \E route \in Routes, user \in SeqsUpTo(UserFrames, MaxDepth) :
         reader = [pc |-> "stack",
                   arg |-> [route |-> route, user |-> user],
                   got |-> None, during |-> {}]

NextCaller == ZerologLogger_getCaller

SpecCaller == InitCaller /\ [][NextCaller]_vars

\* the frame belongs to the facade
BelongsToFacade(f) == contains(f.fn, ZllogDot)

\* positions of the frames outside the facade that the bounded search
\* can reach (position 1 is getCaller's own frame)
ExternalWithinBound(stack) ==
    {i \in 1..Len(stack) : ~BelongsToFacade(stack[i]) /\ i <= LastSkip + 1}

\* the innermost of them
Innermost(S) == CHOOSE i \in S : \A j \in S : i <= j

\* C26: the caller attached to a record is the immediate external call
\* site, the innermost stack frame outside the facade, for either route
\* into the backend; when the bounded search finds no external frame the
\* sentinel "unknown:0" is attached.
C26_CallerIsExternalCallSite ==
    last.op = "getCaller" =>
        LET ext == ExternalWithinBound(last.stack)
        IN  last.caller =
                IF ext = {} THEN Unknown
                ELSE Sprintf(shortFile(last.stack[Innermost(ext)].file),
                             last.stack[Innermost(ext)].line)

\* C29: whenever an initialization call returns nil the logging system is
\* Ready: a configuration has been applied to the global logger and
\* GetLogger() returns a non-nil logger.  This covers calls made after a
\* first initialization that was rejected for its severity, and calls that
\* raced with such a rejected call.
C29_NilMeansReady ==
    (last.op = "Init" /\ last.reached /\ last.err = Nil) =>
        /\ globalLogger.w
        /\ applied # NoConfig
        /\ Accepted(applied)
        /\ globalLoggerImpl # Nil

\* ---------------------------------------------------------------------
\* The RemoteLogger on its own: producers, the flush goroutines, Stop and
\* Fatal
\* ---------------------------------------------------------------------
InitRemote ==
    /\ globalLogger = ZeroLogger
    /\ onceInit = [done |-> 0, m |-> Nil]
    /\ serviceName = ""
    /\ envName = ""
    /\ hostName = ""
    /\ globalTraceIDProvider = Nil
    /\ globalLoggerImpl = Nil
    /\ gLevel = DebugLevel
    /\ pc = [t \in Threads |-> "idle"]
    /\ frame = [t \in Threads |-> NoFrame]
    /\ calls = [l \in CustomLoggers |-> 0]
    /\ written = 0
    /\ last = [op |-> "start"]
    /\ issuedTo = [l \in Loggers \cup {Zerolog} |-> 0]
    /\ lastSet = NoSet
    /\ bodyRuns = 0
    /\ applied = NoConfig
    /\ registered = Nil
    /\ process = [exited |-> FALSE, code |-> 0]
    /\ reader = Idle
    /\ remote = NewRemoteLogger

NextRemote ==
    \/ RemoteLogger_Info
    \/ RemoteLogger_Fatal
    \/ RemoteLogger_Fatal_Exit
    \/ RemoteLogger_Stop
    \/ RemoteLogger_Stop_Wait
    \/ RemoteLogger_Stop_Return
    \/ flushLoop_Tick
    \/ flushLoop_Done
    \/ \E g \in Flushers : flush(g)

SpecRemote == InitRemote /\ [][NextRemote]_vars

\* C27: once Stop has returned, every entry added before Stop was called
\* has been submitted in a request that could succeed (one whose context
\* was live), so none of them is left undelivered by the shutdown.
C27_StopLosesNothing ==
    remote.main = "stopped" =>
        \A e \in remote.beforeStop : e \in remote.submitted

\* C28: the process is never terminated by Fatal while the fatal record is
\* unsent: when os.Exit is reached, a send that carries the fatal entry has
\* completed.
C28_FatalSentBeforeExit ==
    (process.exited /\ remote.fatal # 0) =>
        remote.fatal \in remote.attempted

\* the entries some goroutine holds in a batch it is about to hand to send
InBatchForSend ==
    UNION {SeqToSet(remote.fl[g].batch) :
             g \in {h \in Flushers : remote.fl[h].pc \in {"clear", "send"}}}

\* C30: every entry added is taken out of the buffer by exactly one flush:
\* it is copied into at most one batch, it leaves the buffer only by having
\* been copied into a batch, and that batch is handed to send.
C30_TakenByExactlyOneFlush ==
    \A e \in 1..remote.count :
        /\ remote.copies[e] <= 1
        /\ (e \in SeqToSet(remote.buffer)) \/ remote.copies[e] = 1
        /\ (remote.mu = Free /\ e \in SeqToSet(remote.buffer))
               => remote.copies[e] = 0
        /\ (remote.copies[e] = 1 /\ e \notin SeqToSet(remote.buffer))
               => e \in InBatchForSend \cup remote.attempted

\* two flushes on different goroutines have each taken a batch while
\* producers were adding
C30_Witness ==
    /\ remote.count = MaxEntries
    /\ remote.buffer = <<>>
    /\ \E g, h \in Flushers :
          /\ g # h
          /\ remote.fl[g].batch # <<>>
          /\ remote.fl[h].batch # <<>>
          /\ remote.fl[g].pc = "idle"
          /\ remote.fl[h].pc = "idle"

====
